---- MODULE Spec2Model ----
(***************************************************************************)
(* Chord identification engine of MIDI-Piano-Jaramillo (src/main.py):      *)
(* the pattern registry CHORD_PATTERNS with its add / import / learn /     *)
(* rename / promote / delete operations, and the matcher                   *)
(* analizar_cifrado_alternativos.                                          *)
(*                                                                         *)
(* Representation.  A Python str is the sequence of its code points, so    *)
(* that concatenation is \o and the ordering of str is the lexicographic   *)
(* ordering of code points.  A Python list is a sequence, a dict a record. *)
(* Every pattern dict carries an extra field id, its object identity:      *)
(* custom_chords and CHORD_PATTERNS hold the same objects, and an in-place *)
(* update of an object is applied to every list that holds it.            *)
(***************************************************************************)
EXTENDS Integers, Sequences, FiniteSets, TLC

VARIABLES
  CHORD_PATTERNS,             \* the registry: list of pattern dicts
  custom_chords,              \* ControlWindow.custom_chords: the learned patterns
  additional_base_chords,     \* ControlWindow.additional_base_chords: persisted base payloads
  additional_base_signatures, \* ControlWindow._additional_base_signatures
  last,                       \* the operation that produced this state, its dialogs and its result
  notas,                      \* argument of the current call of analizar_cifrado_alternativos
  matches,                    \* its local list matches when it returned
  info,                       \* the value it returned (or the exception it raised)
  active_notes,               \* ControlWindow.active_notes: keys held down
  sustained_notes,            \* ControlWindow.sustained_notes: notes held by the pedal
  sustain_on,                 \* ControlWindow.sustain_on
  learning_chord,             \* ControlWindow.learning_chord
  learning_waiting_first_note, \* ControlWindow.learning_waiting_first_note
  learning_capture_notes,     \* ControlWindow.learning_capture_notes
  capture_timer               \* capture_timer.isActive()

vars == <<CHORD_PATTERNS, custom_chords, additional_base_chords,
          additional_base_signatures, last, notas, matches, info,
          active_notes, sustained_notes, sustain_on, learning_chord,
          learning_waiting_first_note, learning_capture_notes, capture_timer>>

regVars == <<CHORD_PATTERNS, custom_chords, additional_base_chords,
             additional_base_signatures>>

matchVars == <<notas, matches, info>>

midiVars == <<active_notes, sustained_notes, sustain_on>>

learnVars == <<learning_chord, learning_waiting_first_note, learning_capture_notes,
               capture_timer>>

(***************************************************************************)
(* Bounds of the model.                                                    *)
(***************************************************************************)
NoteLo == 60      \* lowest MIDI note given to the matcher
NoteHi == 72      \* highest MIDI note given to the matcher
MaxNotes == 4     \* largest number of distinct notes in one matcher call
MaxCustom == 2    \* learned patterns the registry may hold
MaxAdded == 1     \* non-custom patterns the registry may hold beyond the built-in ones
MaxEntries == 1   \* entries of a list read from a dictionary or preferences file

(***************************************************************************)
(* Helpers on sequences and sets.                                          *)
(***************************************************************************)
SeqToSet(s) == {s[i] : i \in DOMAIN s}

SetMin(S) == CHOOSE m \in S : \A x \in S : m <= x

\* sorted() of a set of integers
RECURSIVE Sorted(_)
Sorted(S) == IF S = {} THEN <<>>
             ELSE LET m == SetMin(S) IN <<m>> \o Sorted(S \ {m})

\* sorted() of a set of values taken modulo 12
SortedPcs(S) == SelectSeq(<<0, 1, 2, 3, 4, 5, 6, 7, 8, 9, 10, 11>>, LAMBDA x : x \in S)

\* sorted() of a list
RECURSIVE SortedList(_)
SortedList(s) ==
  IF s = <<>> THEN <<>>
  ELSE LET t == SortedList(Tail(s))
           k == Cardinality({i \in DOMAIN t : t[i] < Head(s)})
       IN SubSeq(t, 1, k) \o <<Head(s)>> \o SubSeq(t, k + 1, Len(t))

\* s without its k-th element
RemoveAt(s, k) == SubSeq(s, 1, k - 1) \o SubSeq(s, k + 1, Len(s))

\* the sequences over S of length at most n
SeqsUpTo(S, n) == UNION {[1..k -> S] : k \in 0..n}

\* a str is a sequence of code points; any other value used as a name is
\* modelled by a sequence holding the marker NotAStr
NotAStr == -1
IsStr(v) == \A i \in DOMAIN v : v[i] >= 0

\* Python's < on two str
RECURSIVE StrLess(_, _)
StrLess(s, t) ==
  IF s = <<>> THEN t # <<>>
  ELSE IF t = <<>> THEN FALSE
  ELSE IF Head(s) # Head(t) THEN Head(s) < Head(t)
  ELSE StrLess(Tail(s), Tail(t))

\* str.strip(): leading and trailing whitespace removed
Whitespace == {9, 10, 11, 12, 13, 32}

RECURSIVE LStrip(_)
LStrip(s) == IF s # <<>> /\ Head(s) \in Whitespace THEN LStrip(Tail(s)) ELSE s

RECURSIVE RStrip(_)
RStrip(s) == IF s # <<>> /\ s[Len(s)] \in Whitespace
             THEN RStrip(SubSeq(s, 1, Len(s) - 1)) ELSE s

Strip(s) == RStrip(LStrip(s))

(***************************************************************************)
(* The built-in dictionary.                                                *)
(***************************************************************************)
BASE_CHORD_PATTERNS ==
  <<
    [nombre |-> <<>>, obligatorias |-> <<0, 4, 7>>, opcionales |-> <<>>, is_custom |-> FALSE],  \* 65 ''
    [nombre |-> <<109>>, obligatorias |-> <<0, 3, 7>>, opcionales |-> <<>>, is_custom |-> FALSE],  \* 66 'm'
    [nombre |-> <<43>>, obligatorias |-> <<0, 4, 8>>, opcionales |-> <<>>, is_custom |-> FALSE],  \* 67 '+'
    [nombre |-> <<186>>, obligatorias |-> <<0, 3, 6>>, opcionales |-> <<>>, is_custom |-> FALSE],  \* 68 'U+00BA'
    [nombre |-> <<115, 117, 115, 52>>, obligatorias |-> <<0, 5, 7>>, opcionales |-> <<>>, is_custom |-> FALSE],  \* 69 'sus4'
    [nombre |-> <<115, 117, 115, 50>>, obligatorias |-> <<0, 2, 7>>, opcionales |-> <<>>, is_custom |-> FALSE],  \* 70 'sus2'
    [nombre |-> <<40, 98, 53, 41>>, obligatorias |-> <<0, 4, 6>>, opcionales |-> <<>>, is_custom |-> FALSE],  \* 71 '(b5)'
    [nombre |-> <<97, 100, 100, 50>>, obligatorias |-> <<0, 2, 4, 7>>, opcionales |-> <<>>, is_custom |-> FALSE],  \* 72 'add2'
    [nombre |-> <<109, 40, 97, 100, 100, 50, 41>>, obligatorias |-> <<0, 2, 3, 7>>, opcionales |-> <<>>, is_custom |-> FALSE],  \* 73 'm(add2)'
    [nombre |-> <<109, 40, 97, 100, 100, 52, 41>>, obligatorias |-> <<0, 3, 5, 7>>, opcionales |-> <<>>, is_custom |-> FALSE],  \* 74 'm(add4)'
    [nombre |-> <<54>>, obligatorias |-> <<0, 4, 7, 9>>, opcionales |-> <<>>, is_custom |-> FALSE],  \* 75 '6'
    [nombre |-> <<55>>, obligatorias |-> <<0, 4, 7, 10>>, opcionales |-> <<>>, is_custom |-> FALSE],  \* 76 '7'
    [nombre |-> <<8710>>, obligatorias |-> <<0, 4, 7, 11>>, opcionales |-> <<>>, is_custom |-> FALSE],  \* 77 'U+2206'
    [nombre |-> <<109, 54>>, obligatorias |-> <<0, 3, 7, 9>>, opcionales |-> <<>>, is_custom |-> FALSE],  \* 78 'm6'
    [nombre |-> <<109, 55>>, obligatorias |-> <<0, 3, 7, 10>>, opcionales |-> <<>>, is_custom |-> FALSE],  \* 79 'm7'
    [nombre |-> <<109, 8710>>, obligatorias |-> <<0, 3, 7, 11>>, opcionales |-> <<>>, is_custom |-> FALSE],  \* 80 'mU+2206'
    [nombre |-> <<43, 55>>, obligatorias |-> <<0, 4, 8, 10>>, opcionales |-> <<>>, is_custom |-> FALSE],  \* 81 '+7'
    [nombre |-> <<43, 8710>>, obligatorias |-> <<0, 4, 8, 11>>, opcionales |-> <<>>, is_custom |-> FALSE],  \* 82 '+U+2206'
    [nombre |-> <<186, 55>>, obligatorias |-> <<0, 3, 6, 9>>, opcionales |-> <<>>, is_custom |-> FALSE],  \* 83 'U+00BA7'
    [nombre |-> <<109, 55, 40, 98, 53, 41>>, obligatorias |-> <<0, 3, 6, 10>>, opcionales |-> <<>>, is_custom |-> FALSE],  \* 84 'm7(b5)'
    [nombre |-> <<186, 8710>>, obligatorias |-> <<0, 3, 6, 11>>, opcionales |-> <<>>, is_custom |-> FALSE],  \* 85 'U+00BAU+2206'
    [nombre |-> <<55, 115, 117, 115, 52>>, obligatorias |-> <<0, 5, 7, 10>>, opcionales |-> <<>>, is_custom |-> FALSE],  \* 86 '7sus4'
    [nombre |-> <<55, 115, 117, 115, 50>>, obligatorias |-> <<0, 2, 7, 10>>, opcionales |-> <<>>, is_custom |-> FALSE],  \* 87 '7sus2'
    [nombre |-> <<8710, 115, 117, 115, 52>>, obligatorias |-> <<0, 5, 7, 11>>, opcionales |-> <<>>, is_custom |-> FALSE],  \* 88 'U+2206sus4'
    [nombre |-> <<8710, 115, 117, 115, 50>>, obligatorias |-> <<0, 2, 7, 11>>, opcionales |-> <<>>, is_custom |-> FALSE],  \* 89 'U+2206sus2'
    [nombre |-> <<55, 40, 98, 53, 41>>, obligatorias |-> <<0, 4, 6, 10>>, opcionales |-> <<>>, is_custom |-> FALSE],  \* 90 '7(b5)'
    [nombre |-> <<8710, 40, 98, 53, 41>>, obligatorias |-> <<0, 4, 6, 11>>, opcionales |-> <<>>, is_custom |-> FALSE],  \* 91 'U+2206(b5)'
    [nombre |-> <<54, 40, 57, 41>>, obligatorias |-> <<0, 2, 4, 7, 9>>, opcionales |-> <<>>, is_custom |-> FALSE],  \* 92 '6(9)'
    [nombre |-> <<55, 40, 98, 57, 41>>, obligatorias |-> <<0, 4, 7, 10, 1>>, opcionales |-> <<>>, is_custom |-> FALSE],  \* 93 '7(b9)'
    [nombre |-> <<57>>, obligatorias |-> <<0, 4, 10, 2>>, opcionales |-> <<7>>, is_custom |-> FALSE],  \* 94 '9'
    [nombre |-> <<55, 40, 35, 57, 41>>, obligatorias |-> <<0, 4, 10, 3>>, opcionales |-> <<7>>, is_custom |-> FALSE],  \* 95 '7(#9)'
    [nombre |-> <<8710, 57>>, obligatorias |-> <<0, 4, 11, 2>>, opcionales |-> <<7>>, is_custom |-> FALSE],  \* 96 'U+22069'
    [nombre |-> <<8710, 40, 35, 57, 41>>, obligatorias |-> <<0, 4, 11, 3>>, opcionales |-> <<7>>, is_custom |-> FALSE],  \* 97 'U+2206(#9)'
    [nombre |-> <<109, 54, 40, 57, 41>>, obligatorias |-> <<0, 3, 9, 2>>, opcionales |-> <<7>>, is_custom |-> FALSE],  \* 98 'm6(9)'
    [nombre |-> <<109, 57>>, obligatorias |-> <<0, 3, 10, 2>>, opcionales |-> <<7>>, is_custom |-> FALSE],  \* 99 'm9'
    [nombre |-> <<109, 8710, 57>>, obligatorias |-> <<0, 3, 11, 2>>, opcionales |-> <<7>>, is_custom |-> FALSE],  \* 100 'mU+22069'
    [nombre |-> <<43, 55, 40, 98, 57, 41>>, obligatorias |-> <<0, 4, 8, 10, 1>>, opcionales |-> <<>>, is_custom |-> FALSE],  \* 101 '+7(b9)'
    [nombre |-> <<43, 57>>, obligatorias |-> <<0, 4, 8, 10, 2>>, opcionales |-> <<>>, is_custom |-> FALSE],  \* 102 '+9'
    [nombre |-> <<43, 55, 40, 35, 57, 41>>, obligatorias |-> <<0, 4, 8, 10, 3>>, opcionales |-> <<>>, is_custom |-> FALSE],  \* 103 '+7(#9)'
    [nombre |-> <<43, 8710, 57>>, obligatorias |-> <<0, 4, 8, 11, 2>>, opcionales |-> <<>>, is_custom |-> FALSE],  \* 104 '+U+22069'
    [nombre |-> <<43, 8710, 40, 35, 57, 41>>, obligatorias |-> <<0, 4, 8, 11, 3>>, opcionales |-> <<>>, is_custom |-> FALSE],  \* 105 '+U+2206(#9)'
    [nombre |-> <<186, 55, 40, 57, 41>>, obligatorias |-> <<0, 3, 6, 9, 2>>, opcionales |-> <<>>, is_custom |-> FALSE],  \* 106 'U+00BA7(9)'
    [nombre |-> <<248, 57>>, obligatorias |-> <<0, 3, 6, 10, 2>>, opcionales |-> <<>>, is_custom |-> FALSE],  \* 107 'U+00F89'
    [nombre |-> <<186, 8710, 57>>, obligatorias |-> <<0, 3, 6, 11, 2>>, opcionales |-> <<>>, is_custom |-> FALSE],  \* 108 'U+00BAU+22069'
    [nombre |-> <<57, 115, 117, 115, 52>>, obligatorias |-> <<0, 5, 7, 10, 2>>, opcionales |-> <<>>, is_custom |-> FALSE],  \* 109 '9sus4'
    [nombre |-> <<55, 115, 117, 115, 52, 40, 98, 57, 41>>, obligatorias |-> <<0, 5, 7, 10, 1>>, opcionales |-> <<>>, is_custom |-> FALSE],  \* 110 '7sus4(b9)'
    [nombre |-> <<115, 117, 115, 52, 40, 97, 100, 100, 98, 50, 41>>, obligatorias |-> <<0, 5, 1>>, opcionales |-> <<7>>, is_custom |-> FALSE],  \* 111 'sus4(addb2)'
    [nombre |-> <<55, 115, 117, 115, 50, 40, 98, 57, 41>>, obligatorias |-> <<0, 2, 10, 1>>, opcionales |-> <<7>>, is_custom |-> FALSE],  \* 112 '7sus2(b9)'
    [nombre |-> <<8710, 57, 115, 117, 115, 52>>, obligatorias |-> <<0, 5, 11, 2>>, opcionales |-> <<7>>, is_custom |-> FALSE],  \* 113 'U+22069sus4'
    [nombre |-> <<55, 40, 98, 53, 41, 98, 57>>, obligatorias |-> <<0, 4, 6, 10, 1>>, opcionales |-> <<>>, is_custom |-> FALSE],  \* 114 '7(b5)b9'
    [nombre |-> <<57, 40, 98, 53, 41>>, obligatorias |-> <<0, 4, 6, 10, 2>>, opcionales |-> <<>>, is_custom |-> FALSE],  \* 115 '9(b5)'
    [nombre |-> <<55, 40, 98, 53, 41, 35, 57>>, obligatorias |-> <<0, 4, 6, 10, 3>>, opcionales |-> <<>>, is_custom |-> FALSE],  \* 116 '7(b5)#9'
    [nombre |-> <<54, 40, 57, 41, 35, 49, 49>>, obligatorias |-> <<0, 4, 9, 2, 6, 7>>, opcionales |-> <<>>, is_custom |-> FALSE],  \* 117 '6(9)#11'
    [nombre |-> <<55, 40, 98, 57, 41, 35, 49, 49>>, obligatorias |-> <<0, 4, 10, 1, 6>>, opcionales |-> <<7>>, is_custom |-> FALSE],  \* 118 '7(b9)#11'
    [nombre |-> <<57, 40, 35, 49, 49, 41>>, obligatorias |-> <<0, 4, 10, 2, 6>>, opcionales |-> <<7>>, is_custom |-> FALSE],  \* 119 '9(#11)'
    [nombre |-> <<55, 40, 35, 57, 41, 35, 49, 49>>, obligatorias |-> <<0, 4, 10, 3, 6>>, opcionales |-> <<7>>, is_custom |-> FALSE],  \* 120 '7(#9)#11'
    [nombre |-> <<8710, 57, 40, 35, 49, 49, 41>>, obligatorias |-> <<0, 4, 11, 2, 6>>, opcionales |-> <<7>>, is_custom |-> FALSE],  \* 121 'U+22069(#11)'
    [nombre |-> <<8710, 40, 35, 57, 41, 35, 49, 49>>, obligatorias |-> <<0, 4, 11, 3, 6>>, opcionales |-> <<7>>, is_custom |-> FALSE],  \* 122 'U+2206(#9)#11'
    [nombre |-> <<109, 49, 49>>, obligatorias |-> <<0, 3, 10, 5>>, opcionales |-> <<2, 7>>, is_custom |-> FALSE],  \* 123 'm11'
    [nombre |-> <<109, 57, 40, 35, 49, 49, 41>>, obligatorias |-> <<0, 3, 7, 10, 2, 6>>, opcionales |-> <<>>, is_custom |-> FALSE],  \* 124 'm9(#11)'
    [nombre |-> <<109, 8710, 49, 49>>, obligatorias |-> <<0, 3, 11, 5>>, opcionales |-> <<7, 2>>, is_custom |-> FALSE],  \* 125 'mU+220611'
    [nombre |-> <<109, 8710, 35, 49, 49>>, obligatorias |-> <<0, 3, 11, 6>>, opcionales |-> <<7, 2, 5>>, is_custom |-> FALSE],  \* 126 'mU+2206#11'
    [nombre |-> <<43, 55, 40, 98, 57, 41, 35, 49, 49>>, obligatorias |-> <<0, 4, 8, 10, 1, 6>>, opcionales |-> <<>>, is_custom |-> FALSE],  \* 127 '+7(b9)#11'
    [nombre |-> <<43, 57, 40, 35, 49, 49, 41>>, obligatorias |-> <<0, 4, 8, 10, 2, 6>>, opcionales |-> <<>>, is_custom |-> FALSE],  \* 128 '+9(#11)'
    [nombre |-> <<43, 55, 40, 35, 57, 41, 35, 49, 49>>, obligatorias |-> <<0, 4, 8, 10, 3, 6>>, opcionales |-> <<>>, is_custom |-> FALSE],  \* 129 '+7(#9)#11'
    [nombre |-> <<43, 8710, 57, 40, 35, 49, 49, 41>>, obligatorias |-> <<0, 4, 8, 11, 2, 6>>, opcionales |-> <<>>, is_custom |-> FALSE],  \* 130 '+U+22069(#11)'
    [nombre |-> <<43, 8710, 40, 35, 57, 41, 35, 49, 49>>, obligatorias |-> <<0, 4, 8, 11, 3, 6>>, opcionales |-> <<>>, is_custom |-> FALSE],  \* 131 '+U+2206(#9)#11'
    [nombre |-> <<186, 55, 40, 49, 49, 41>>, obligatorias |-> <<0, 3, 6, 9, 5>>, opcionales |-> <<2>>, is_custom |-> FALSE],  \* 132 'U+00BA7(11)'
    [nombre |-> <<248, 49, 49>>, obligatorias |-> <<0, 2, 3, 6, 10, 5>>, opcionales |-> <<>>, is_custom |-> FALSE],  \* 133 'U+00F811'
    [nombre |-> <<186, 8710, 49, 49>>, obligatorias |-> <<0, 3, 6, 11, 5>>, opcionales |-> <<2>>, is_custom |-> FALSE],  \* 134 'U+00BAU+220611'
    [nombre |-> <<49, 51, 40, 98, 57, 41>>, obligatorias |-> <<0, 4, 10, 1, 9>>, opcionales |-> <<7>>, is_custom |-> FALSE],  \* 135 '13(b9)'
    [nombre |-> <<49, 51>>, obligatorias |-> <<0, 2, 4, 9, 10>>, opcionales |-> <<7>>, is_custom |-> FALSE],  \* 136 '13'
    [nombre |-> <<49, 51, 40, 35, 57, 41>>, obligatorias |-> <<0, 4, 10, 3, 9>>, opcionales |-> <<7>>, is_custom |-> FALSE],  \* 137 '13(#9)'
    [nombre |-> <<55, 40, 98, 57, 41, 98, 49, 51>>, obligatorias |-> <<0, 4, 10, 1, 8>>, opcionales |-> <<7>>, is_custom |-> FALSE],  \* 138 '7(b9)b13'
    [nombre |-> <<57, 40, 98, 49, 51, 41>>, obligatorias |-> <<0, 4, 10, 2, 8>>, opcionales |-> <<7>>, is_custom |-> FALSE],  \* 139 '9(b13)'
    [nombre |-> <<55, 40, 35, 57, 41, 98, 49, 51>>, obligatorias |-> <<0, 4, 10, 3, 8>>, opcionales |-> <<7>>, is_custom |-> FALSE],  \* 140 '7(#9)b13'
    [nombre |-> <<8710, 49, 51>>, obligatorias |-> <<0, 2, 4, 7, 11, 9>>, opcionales |-> <<>>, is_custom |-> FALSE],  \* 141 'U+220613'
    [nombre |-> <<8710, 49, 51, 40, 35, 49, 49, 41>>, obligatorias |-> <<0, 4, 7, 11, 6, 9>>, opcionales |-> <<2>>, is_custom |-> FALSE],  \* 142 'U+220613(#11)'
    [nombre |-> <<49, 51, 40, 35, 49, 49, 41>>, obligatorias |-> <<0, 4, 7, 10, 6, 9>>, opcionales |-> <<2>>, is_custom |-> FALSE],  \* 143 '13(#11)'
    [nombre |-> <<8710, 49, 51, 40, 35, 57, 41>>, obligatorias |-> <<0, 4, 11, 3, 9>>, opcionales |-> <<2>>, is_custom |-> FALSE],  \* 144 'U+220613(#9)'
    [nombre |-> <<109, 49, 51>>, obligatorias |-> <<0, 3, 10, 9>>, opcionales |-> <<7, 2, 5>>, is_custom |-> FALSE],  \* 145 'm13'
    [nombre |-> <<109, 8710, 49, 51>>, obligatorias |-> <<0, 3, 11, 9>>, opcionales |-> <<7, 2, 5>>, is_custom |-> FALSE],  \* 146 'mU+220613'
    [nombre |-> <<186, 55, 40, 98, 49, 51, 41>>, obligatorias |-> <<0, 3, 6, 9, 8>>, opcionales |-> <<2, 5>>, is_custom |-> FALSE],  \* 147 'U+00BA7(b13)'
    [nombre |-> <<49, 51, 115, 117, 115, 52>>, obligatorias |-> <<0, 2, 5, 7, 10, 9>>, opcionales |-> <<>>, is_custom |-> FALSE],  \* 148 '13sus4'
    [nombre |-> <<49, 51, 115, 117, 115, 52, 40, 98, 57, 41>>, obligatorias |-> <<0, 5, 7, 10, 1, 9>>, opcionales |-> <<>>, is_custom |-> FALSE],  \* 149 '13sus4(b9)'
    [nombre |-> <<49, 51, 40, 98, 53, 41, 98, 57>>, obligatorias |-> <<0, 4, 6, 10, 1, 9>>, opcionales |-> <<>>, is_custom |-> FALSE],  \* 150 '13(b5)b9'
    [nombre |-> <<49, 51, 40, 98, 53, 41>>, obligatorias |-> <<0, 4, 6, 10, 9>>, opcionales |-> <<2, 7>>, is_custom |-> FALSE],  \* 151 '13(b5)'
    [nombre |-> <<49, 51, 40, 98, 53, 41, 35, 57>>, obligatorias |-> <<0, 4, 6, 10, 3, 9>>, opcionales |-> <<2, 7>>, is_custom |-> FALSE]  \* 152 '13(b5)#9'
  >>

DETECT_NOTE_NAMES ==
  << <<67>>, <<67, 35>>, <<68>>, <<69, 98>>, <<69>>, <<70>>, <<70, 35>>, <<71>>, <<65, 98>>, <<65>>, <<66, 98>>, <<66>> >>

NumBase == Len(BASE_CHORD_PATTERNS)

\* CHORD_PATTERNS = [dict(ptn) for ptn in BASE_CHORD_PATTERNS]: fresh objects 1..NumBase
InitialPatterns ==
  [i \in 1..NumBase |->
     [id |-> i,
      nombre |-> BASE_CHORD_PATTERNS[i].nombre,
      obligatorias |-> BASE_CHORD_PATTERNS[i].obligatorias,
      opcionales |-> BASE_CHORD_PATTERNS[i].opcionales,
      is_custom |-> BASE_CHORD_PATTERNS[i].is_custom]]

(***************************************************************************)
(* Normalisation and signatures.                                           *)
(***************************************************************************)
\* the values modulo 12, sorted, with no 0 added
normalize_intervals_unrooted(intervals) ==
  SortedPcs({intervals[i] % 12 : i \in DOMAIN intervals})

\* sorted({int(ivl) % 12 for ivl in intervals} | {0})
normalize_intervals(intervals) ==
  SortedPcs({intervals[i] % 12 : i \in DOMAIN intervals} \cup {0})

\* sorted({int(ivl) % 12 for ivl in opcionales}): no 0 forced, nothing removed
normalize_opcionales(opcionales) ==
  SortedPcs({opcionales[i] % 12 : i \in DOMAIN opcionales})

signature_from_lists(obligatorias, opcionales) ==
  <<normalize_intervals(obligatorias), normalize_opcionales(opcionales)>>

pattern_signature(pattern) ==
  signature_from_lists(pattern.obligatorias, pattern.opcionales)

DEFAULT_BASE_SIGNATURES ==
  {pattern_signature(BASE_CHORD_PATTERNS[i]) : i \in 1..NumBase}

(***************************************************************************)
(* The matcher, analizar_cifrado_alternativos.                             *)
(***************************************************************************)
EmptyResult == [principal |-> <<>>, alternativos |-> <<>>]

\* the call ended with an exception instead of a value
Raised == [raised |-> "TypeError"]

\* no call has returned yet
NotCalled == [pending |-> TRUE]

\* interval_set of one candidate root
interval_set_of(ordenadas, root_pc) ==
  {((n % 12) - root_pc + 12) % 12 : n \in ordenadas} \cup {0}

\* a faulty match test, to show what the exact-cover property rests on: the
\* second test is forgotten, sounding intervals outside the pattern pass
PatternMatchesObligOnly(ptn, interval_set) ==
  \A i \in DOMAIN ptn.obligatorias : ptn.obligatorias[i] \in interval_set

\* the two tests of the inner loop: every obligatory interval sounds, and
\* no sounding interval is outside obligatorias + opcionales
PatternMatches(ptn, interval_set) ==
  /\ \A i \in DOMAIN ptn.obligatorias : ptn.obligatorias[i] \in interval_set
  /\ LET permitidas == SeqToSet(ptn.obligatorias) \cup SeqToSet(ptn.opcionales)
         extra_notas == {ivl \in interval_set : ivl \notin permitidas}
     IN extra_notas = {}

\* a faulty candidate, to show what the naming of a chord in root position
\* rests on: no candidate is marked as standing on the bass
MatchRecordOffBass(ptn, root_pc, bass_pc, interval_set) ==
  [root |-> root_pc,
   nombre |-> ptn.nombre,
   numOblig |-> Len(ptn.obligatorias),
   opcionalesPresentes |->
     Cardinality({i \in DOMAIN ptn.opcionales : ptn.opcionales[i] \in interval_set}),
   esGraveFundamental |-> FALSE,
   obligatorias |-> ptn.obligatorias,
   opcionales |-> ptn.opcionales,
   is_custom |-> ptn.is_custom]

\* the dict appended to matches
MatchRecord(ptn, root_pc, bass_pc, interval_set) ==
  [root |-> root_pc,
   nombre |-> ptn.nombre,
   numOblig |-> Len(ptn.obligatorias),
   opcionalesPresentes |->
     Cardinality({i \in DOMAIN ptn.opcionales : ptn.opcionales[i] \in interval_set}),
   esGraveFundamental |-> (bass_pc = root_pc),
   obligatorias |-> ptn.obligatorias,
   opcionales |-> ptn.opcionales,
   is_custom |-> ptn.is_custom]

MatchesForRoot(patterns, ordenadas, root_pc, bass_pc) ==
  LET interval_set == interval_set_of(ordenadas, root_pc)
      hits == SelectSeq(patterns, LAMBDA ptn : PatternMatches(ptn, interval_set))
  IN [k \in 1..Len(hits) |-> MatchRecord(hits[k], root_pc, bass_pc, interval_set)]

RECURSIVE MatchesForRoots(_, _, _, _)
MatchesForRoots(patterns, ordenadas, pitch_classes, bass_pc) ==
  IF pitch_classes = <<>> THEN <<>>
  ELSE MatchesForRoot(patterns, ordenadas, Head(pitch_classes), bass_pc)
       \o MatchesForRoots(patterns, ordenadas, Tail(pitch_classes), bass_pc)

\* the list matches after the two nested loops; idx is the identity of each
\* dict (its position), used by the test "m is not principal_match"
ComputeMatches(patterns, ordenadas) ==
  LET bass_pc == SetMin(ordenadas) % 12
      pitch_classes == SortedPcs({n % 12 : n \in ordenadas})
      ms == MatchesForRoots(patterns, ordenadas, pitch_classes, bass_pc)
  IN [k \in 1..Len(ms) |->
        [idx |-> k, root |-> ms[k].root, nombre |-> ms[k].nombre,
         numOblig |-> ms[k].numOblig,
         opcionalesPresentes |-> ms[k].opcionalesPresentes,
         esGraveFundamental |-> ms[k].esGraveFundamental,
         obligatorias |-> ms[k].obligatorias, opcionales |-> ms[k].opcionales,
         is_custom |-> ms[k].is_custom]]

\* a faulty key, to show what the choice of the principal rests on: learned
\* patterns are not put first
sort_key_no_custom(m) ==
  <<1,
    IF m.esGraveFundamental THEN 0 ELSE 1,
    -m.numOblig,
    -m.opcionalesPresentes,
    m.nombre>>

sort_key(m) ==
  <<IF m.is_custom THEN 0 ELSE 1,
    IF m.esGraveFundamental THEN 0 ELSE 1,
    -m.numOblig,
    -m.opcionalesPresentes,
    m.nombre>>

\* the first four components of two keys are equal
SameKeyPrefix(ka, kb) == \A j \in 1..4 : ka[j] = kb[j]

\* Python's < on the key tuples
KeyLess(ka, kb) ==
  \/ \E i \in 1..4 : (\A j \in 1..(i - 1) : ka[j] = kb[j]) /\ ka[i] < kb[i]
  \/ SameKeyPrefix(ka, kb) /\ StrLess(ka[5], kb[5])

\* sorted(ms, key=sort_key) compares a str with a non-str, and so raises
\* TypeError, exactly when two entries tie on the first four components and
\* only one of their names is a str: the entries of such a tie are adjacent in
\* any sorted result, and adjacent entries are always compared with each other
SortRaises(ms) ==
  \E i, j \in DOMAIN ms :
    /\ SameKeyPrefix(sort_key(ms[i]), sort_key(ms[j]))
    /\ IsStr(ms[i].nombre) /\ ~IsStr(ms[j].nombre)

\* insert m behind every entry whose key is not greater: sorted() is stable
InsertSorted(t, m) ==
  LET k == Cardinality({i \in DOMAIN t : ~KeyLess(sort_key(m), sort_key(t[i]))})
  IN SubSeq(t, 1, k) \o <<m>> \o SubSeq(t, k + 1, Len(t))

RECURSIVE SortedByKey(_)
SortedByKey(ms) ==
  IF ms = <<>> THEN <<>>
  ELSE InsertSorted(SortedByKey(SubSeq(ms, 1, Len(ms) - 1)), ms[Len(ms)])

\* a faulty rendering, to show what the slash rule rests on: the bass is
\* appended whenever the candidate is not bass-rooted
nombre_para_match_always_slash(m, bass_pc) ==
  LET nombre == DETECT_NOTE_NAMES[m.root + 1] \o m.nombre
  IN IF ~m.esGraveFundamental
     THEN nombre \o <<47>> \o DETECT_NOTE_NAMES[bass_pc + 1]
     ELSE nombre

nombre_para_match(m, bass_pc) ==
  LET nombre == DETECT_NOTE_NAMES[m.root + 1] \o m.nombre
      es_solo_triada_o_sep ==
        /\ \A i \in DOMAIN m.obligatorias : m.obligatorias[i] \notin {2, 5, 9}
        /\ \A i \in DOMAIN m.opcionales : m.opcionales[i] \notin {2, 5, 9}
      bass_int == (bass_pc - m.root + 12) % 12
  IN IF ~m.esGraveFundamental /\ es_solo_triada_o_sep /\ bass_int \in {3, 4, 7, 10}
     THEN nombre \o <<47>> \o DETECT_NOTE_NAMES[bass_pc + 1]      \* "/" is 47
     ELSE nombre

\* a faulty loop, to show what the cap of the alternatives rests on: it stops
\* at five names
RECURSIVE AlternativosLoopFive(_, _, _, _, _)
AlternativosLoopFive(rest, i, principal, bass_pc, alternativos) ==
  IF i > Len(rest) THEN [raised |-> FALSE, alternativos |-> alternativos]
  ELSE IF ~IsStr(rest[i].nombre) THEN [raised |-> TRUE, alternativos |-> alternativos]
  ELSE LET nombre == nombre_para_match(rest[i], bass_pc)
           next == IF nombre # principal /\ nombre \notin SeqToSet(alternativos)
                   THEN Append(alternativos, nombre)
                   ELSE alternativos
       IN IF Len(next) >= 5
          THEN [raised |-> FALSE, alternativos |-> next]
          ELSE AlternativosLoopFive(rest, i + 1, principal, bass_pc, next)

\* the loop that fills alternativos, from position i of the list rest;
\* root_name + m["nombre"] raises TypeError when the name is not a str
RECURSIVE AlternativosLoop(_, _, _, _, _)
AlternativosLoop(rest, i, principal, bass_pc, alternativos) ==
  IF i > Len(rest) THEN [raised |-> FALSE, alternativos |-> alternativos]
  ELSE IF ~IsStr(rest[i].nombre) THEN [raised |-> TRUE, alternativos |-> alternativos]
  ELSE LET nombre == nombre_para_match(rest[i], bass_pc)
           next == IF nombre # principal /\ nombre \notin SeqToSet(alternativos)
                   THEN Append(alternativos, nombre)
                   ELSE alternativos
       IN IF Len(next) >= 4
          THEN [raised |-> FALSE, alternativos |-> next]
          ELSE AlternativosLoop(rest, i + 1, principal, bass_pc, next)

\* the value returned for the list notas and the registry patterns, with the
\* local list matches; Raised when the call ends with a TypeError
analizar_cifrado_alternativos(notas_arg, patterns) ==
  LET ordenadas == SeqToSet(notas_arg)
  IN IF Len(notas_arg) < 2 \/ Cardinality(ordenadas) < 2
     THEN [matches |-> <<>>, info |-> EmptyResult]
     ELSE
       LET bass_pc == SetMin(ordenadas) % 12
           ms == ComputeMatches(patterns, ordenadas)
       IN IF ms = <<>> THEN [matches |-> ms, info |-> EmptyResult]
          ELSE IF SortRaises(ms) THEN [matches |-> ms, info |-> Raised]
          ELSE
            LET bass_matches == SelectSeq(ms, LAMBDA m : m.esGraveFundamental)
                ordered_bass == SortedByKey(bass_matches)
                ordered_all == SortedByKey(ms)
                principal_match == IF ordered_bass # <<>> THEN ordered_bass[1]
                                   ELSE ordered_all[1]
            IN IF ~IsStr(principal_match.nombre) THEN [matches |-> ms, info |-> Raised]
               ELSE
                 LET principal == nombre_para_match(principal_match, bass_pc)
                     rest == SubSeq(ordered_bass, 2, Len(ordered_bass))
                             \o SelectSeq(ordered_all,
                                          LAMBDA m : m.idx # principal_match.idx)
                     loop == AlternativosLoop(rest, 1, principal, bass_pc, <<>>)
                 IN IF loop.raised THEN [matches |-> ms, info |-> Raised]
                    ELSE [matches |-> ms,
                          info |-> [principal |-> principal,
                                    alternativos |-> loop.alternativos,
                                    principal_match |-> principal_match,
                                    bass_pc |-> bass_pc]]

(***************************************************************************)
(* The registry.  reg is the record of the four registry variables; every  *)
(* operation is a function from reg (and its inputs) to the new reg and    *)
(* what the operation returned and asked.  asked tells that a yes/no       *)
(* question was put to the user, confirmed_ids holds the objects that were *)
(* overwritten after the user answered yes.                                *)
(***************************************************************************)
\* the ids of the pattern objects that are alive
UsedIds(reg) ==
  {reg.CHORD_PATTERNS[i].id : i \in DOMAIN reg.CHORD_PATTERNS}
  \cup {reg.custom_chords[i].id : i \in DOMAIN reg.custom_chords}

\* identity of a newly created dict
FreshId(reg) ==
  CHOOSE n \in 1..(Cardinality(UsedIds(reg)) + 1) :
    n \notin UsedIds(reg) /\ \A m \in 1..(n - 1) : m \in UsedIds(reg)

\* dict.update / item assignment on the object id, seen through every list
UpdateObject(reg, id, fields) ==
  LET upd(p) == IF p.id = id
                THEN [id |-> id, nombre |-> fields.nombre,
                      obligatorias |-> fields.obligatorias,
                      opcionales |-> fields.opcionales,
                      is_custom |-> fields.is_custom]
                ELSE p
  IN [reg EXCEPT
        !.CHORD_PATTERNS = [i \in DOMAIN reg.CHORD_PATTERNS |-> upd(reg.CHORD_PATTERNS[i])],
        !.custom_chords = [i \in DOMAIN reg.custom_chords |-> upd(reg.custom_chords[i])]]

\* == of two dicts: the contents, not the identity
DictEq(p, q) ==
  /\ p.nombre = q.nombre
  /\ p.obligatorias = q.obligatorias
  /\ p.opcionales = q.opcionales
  /\ p.is_custom = q.is_custom

\* list.remove(x): drops the first element equal to x; nothing is dropped
\* when there is none (the ValueError is caught by the callers)
ListRemove(s, x) ==
  LET eq == {i \in DOMAIN s : DictEq(s[i], x)}
  IN IF eq = {} THEN s ELSE RemoveAt(s, SetMin(eq))

\* a faulty search, to show what the base insertion rests on: learned
\* patterns are looked at too
find_pattern_by_signature_any(patterns, signature, include_custom) ==
  LET hits == {i \in DOMAIN patterns : pattern_signature(patterns[i]) = signature}
  IN IF hits = {} THEN 0 ELSE SetMin(hits)

\* index in patterns of the pattern returned, 0 for None
find_pattern_by_signature(patterns, signature, include_custom) ==
  LET hits == {i \in DOMAIN patterns :
                 /\ ~(~include_custom /\ patterns[i].is_custom)
                 /\ pattern_signature(patterns[i]) = signature}
  IN IF hits = {} THEN 0 ELSE SetMin(hits)

remember_additional_base(reg, name, obligatorias, opcionales) ==
  LET signature == signature_from_lists(obligatorias, opcionales)
      payload == [nombre |-> name,
                  obligatorias |-> normalize_intervals(obligatorias),
                  opcionales |-> normalize_opcionales(opcionales)]
      stored == {i \in DOMAIN reg.additional_base_chords :
                   pattern_signature(reg.additional_base_chords[i]) = signature}
  IN IF signature \in reg.additional_base_signatures
     THEN IF stored = {} THEN reg
          ELSE [reg EXCEPT !.additional_base_chords[SetMin(stored)] = payload]
     ELSE [reg EXCEPT
             !.additional_base_signatures = @ \cup {signature},
             !.additional_base_chords = Append(@, payload)]

\* answer is what the user replies if the question is asked.
\* Result: reg, ret (id of the pattern returned, 0 for None), asked,
\* overwritten (id of the entry overwritten in place, 0 if none)
add_base_chord(reg, name, obligatorias, opcionales, allow_overwrite, prompt_on_conflict, record_extra, answer) ==
  LET oblig_norm == normalize_intervals(obligatorias)
      opc_norm == normalize_opcionales(opcionales)
      signature == signature_from_lists(oblig_norm, opc_norm)
      existing_idx == find_pattern_by_signature(reg.CHORD_PATTERNS, signature, FALSE)
      recorded(r) == IF record_extra
                     THEN remember_additional_base(r, name, oblig_norm, opc_norm)
                     ELSE r
  IN IF existing_idx # 0
     THEN LET existing_base == reg.CHORD_PATTERNS[existing_idx]
          IN IF allow_overwrite
             THEN IF prompt_on_conflict /\ ~answer
                  THEN [reg |-> reg, ret |-> 0, asked |-> TRUE, overwritten |-> 0]
                  ELSE [reg |-> recorded(UpdateObject(reg, existing_base.id,
                                   [nombre |-> name, obligatorias |-> oblig_norm,
                                    opcionales |-> opc_norm, is_custom |-> FALSE])),
                        ret |-> existing_base.id,
                        asked |-> prompt_on_conflict,
                        overwritten |-> existing_base.id]
             ELSE [reg |-> reg, ret |-> existing_base.id, asked |-> FALSE,
                   overwritten |-> 0]
     ELSE LET pattern == [id |-> FreshId(reg), nombre |-> name,
                          obligatorias |-> oblig_norm, opcionales |-> opc_norm,
                          is_custom |-> FALSE]
          IN [reg |-> recorded([reg EXCEPT !.CHORD_PATTERNS = Append(@, pattern)]),
              ret |-> pattern.id, asked |-> FALSE, overwritten |-> 0]

\* a faulty registration, to show what the rule on overwriting rests on: the
\* learned pattern is replaced whatever the user answers
register_custom_chord_any_answer(reg, name, intervals, answer) ==
  LET unique_intervals == SortedPcs({intervals[i] % 12 : i \in DOMAIN intervals} \cup {0})
      fields == [nombre |-> name, obligatorias |-> unique_intervals,
                 opcionales |-> <<>>, is_custom |-> TRUE]
      same == {i \in DOMAIN reg.custom_chords :
                 SortedList(reg.custom_chords[i].obligatorias) = unique_intervals}
  IN IF same # {}
     THEN [reg |-> UpdateObject(reg, reg.custom_chords[SetMin(same)].id, fields),
           asked |-> TRUE, done |-> TRUE,
           confirmed_ids |-> IF answer THEN {reg.custom_chords[SetMin(same)].id} ELSE {}]
     ELSE LET pattern == [id |-> FreshId(reg), nombre |-> name,
                          obligatorias |-> unique_intervals,
                          opcionales |-> <<>>, is_custom |-> TRUE]
          IN [reg |-> [reg EXCEPT !.CHORD_PATTERNS = Append(@, pattern),
                                  !.custom_chords = Append(@, pattern)],
              asked |-> FALSE, done |-> TRUE, confirmed_ids |-> {}]

\* a faulty registration, to show what the deduplication rests on: the
\* learned patterns are not searched, the pattern is always appended
register_custom_chord_always_new(reg, name, intervals, answer) ==
  LET unique_intervals == SortedPcs({intervals[i] % 12 : i \in DOMAIN intervals} \cup {0})
      pattern == [id |-> FreshId(reg), nombre |-> name,
                  obligatorias |-> unique_intervals,
                  opcionales |-> <<>>, is_custom |-> TRUE]
  IN [reg |-> [reg EXCEPT !.CHORD_PATTERNS = Append(@, pattern),
                          !.custom_chords = Append(@, pattern)],
      asked |-> FALSE, done |-> TRUE, confirmed_ids |-> {}]

\* Result: reg, asked, done (FALSE when the user declined), confirmed_ids
register_custom_chord(reg, name, intervals, answer) ==
  LET unique_intervals == SortedPcs({intervals[i] % 12 : i \in DOMAIN intervals} \cup {0})
      fields == [nombre |-> name, obligatorias |-> unique_intervals,
                 opcionales |-> <<>>, is_custom |-> TRUE]
      same == {i \in DOMAIN reg.custom_chords :
                 SortedList(reg.custom_chords[i].obligatorias) = unique_intervals}
  IN IF same # {}
     THEN IF ~answer
          THEN [reg |-> reg, asked |-> TRUE, done |-> FALSE, confirmed_ids |-> {}]
          ELSE [reg |-> UpdateObject(reg, reg.custom_chords[SetMin(same)].id, fields),
                asked |-> TRUE, done |-> TRUE,
                confirmed_ids |-> {reg.custom_chords[SetMin(same)].id}]
     ELSE LET pattern == [id |-> FreshId(reg), nombre |-> name,
                          obligatorias |-> unique_intervals,
                          opcionales |-> <<>>, is_custom |-> TRUE]
          IN [reg |-> [reg EXCEPT !.CHORD_PATTERNS = Append(@, pattern),
                                  !.custom_chords = Append(@, pattern)],
              asked |-> FALSE, done |-> TRUE, confirmed_ids |-> {}]

\* index is the 0-based index of the row; ok and text are the reply to the
\* name dialog.  Result: reg
edit_custom_chord_name(reg, index, ok, text) ==
  IF index < 0 \/ index >= Len(reg.custom_chords) THEN reg
  ELSE LET pattern == reg.custom_chords[index + 1]
           new_name == Strip(text)
       IN IF ~ok \/ new_name = <<>> \/ new_name = pattern.nombre THEN reg
          ELSE UpdateObject(reg, pattern.id, [pattern EXCEPT !.nombre = new_name])

\* a promotion that overwrites whatever the answer
move_custom_to_base_any_answer(reg, index, answer) ==
  IF index < 0 \/ index >= Len(reg.custom_chords)
  THEN [reg |-> reg, asked |-> FALSE, confirmed_ids |-> {}]
  ELSE
    LET pattern == reg.custom_chords[index + 1]
        oblig == pattern.obligatorias
        opc == pattern.opcionales
        signature == signature_from_lists(oblig, opc)
        existing_idx == find_pattern_by_signature(reg.CHORD_PATTERNS, signature, FALSE)
        conflict == existing_idx # 0 /\ reg.CHORD_PATTERNS[existing_idx].id # pattern.id
        popped(r) == [r EXCEPT !.custom_chords = RemoveAt(@, index + 1)]
    IN IF conflict
       THEN IF FALSE THEN [reg |-> reg, asked |-> TRUE, confirmed_ids |-> {}]
            ELSE
              LET existing_base == reg.CHORD_PATTERNS[existing_idx]
                  r1 == UpdateObject(reg, existing_base.id,
                          [nombre |-> pattern.nombre,
                           obligatorias |-> normalize_intervals(oblig),
                           opcionales |-> normalize_opcionales(opc),
                           is_custom |-> FALSE])
                  r2 == [r1 EXCEPT !.CHORD_PATTERNS = ListRemove(@, pattern)]
                  r3 == remember_additional_base(r2, pattern.nombre,
                                                 pattern.obligatorias, pattern.opcionales)
              IN [reg |-> popped(r3), asked |-> TRUE,
                  confirmed_ids |-> {existing_base.id}]
       ELSE
         LET flipped == [pattern EXCEPT !.is_custom = FALSE]
             r1 == UpdateObject(reg, pattern.id, flipped)
             r2 == IF \E i \in DOMAIN r1.CHORD_PATTERNS : DictEq(r1.CHORD_PATTERNS[i], flipped)
                   THEN r1
                   ELSE [r1 EXCEPT !.CHORD_PATTERNS = Append(@, flipped)]
             r3 == remember_additional_base(r2, flipped.nombre,
                                            flipped.obligatorias, flipped.opcionales)
         IN [reg |-> popped(r3), asked |-> FALSE, confirmed_ids |-> {}]

\* Result: reg, asked, confirmed_ids
move_custom_to_base(reg, index, answer) ==
  IF index < 0 \/ index >= Len(reg.custom_chords)
  THEN [reg |-> reg, asked |-> FALSE, confirmed_ids |-> {}]
  ELSE
    LET pattern == reg.custom_chords[index + 1]
        oblig == pattern.obligatorias
        opc == pattern.opcionales
        signature == signature_from_lists(oblig, opc)
        existing_idx == find_pattern_by_signature(reg.CHORD_PATTERNS, signature, FALSE)
        conflict == existing_idx # 0 /\ reg.CHORD_PATTERNS[existing_idx].id # pattern.id
        popped(r) == [r EXCEPT !.custom_chords = RemoveAt(@, index + 1)]
    IN IF conflict
       THEN IF ~answer THEN [reg |-> reg, asked |-> TRUE, confirmed_ids |-> {}]
            ELSE
              LET existing_base == reg.CHORD_PATTERNS[existing_idx]
                  r1 == UpdateObject(reg, existing_base.id,
                          [nombre |-> pattern.nombre,
                           obligatorias |-> normalize_intervals(oblig),
                           opcionales |-> normalize_opcionales(opc),
                           is_custom |-> FALSE])
                  r2 == [r1 EXCEPT !.CHORD_PATTERNS = ListRemove(@, pattern)]
                  r3 == remember_additional_base(r2, pattern.nombre,
                                                 pattern.obligatorias, pattern.opcionales)
              IN [reg |-> popped(r3), asked |-> TRUE,
                  confirmed_ids |-> {existing_base.id}]
       ELSE
         LET flipped == [pattern EXCEPT !.is_custom = FALSE]
             r1 == UpdateObject(reg, pattern.id, flipped)
             r2 == IF \E i \in DOMAIN r1.CHORD_PATTERNS : DictEq(r1.CHORD_PATTERNS[i], flipped)
                   THEN r1
                   ELSE [r1 EXCEPT !.CHORD_PATTERNS = Append(@, flipped)]
             r3 == remember_additional_base(r2, flipped.nombre,
                                            flipped.obligatorias, flipped.opcionales)
         IN [reg |-> popped(r3), asked |-> FALSE, confirmed_ids |-> {}]

\* a faulty deletion, to show what the lifecycle rests on: the row index is
\* used as an index of CHORD_PATTERNS
delete_custom_chord_by_position(reg, index) ==
  IF index < 0 \/ index >= Len(reg.custom_chords) THEN reg
  ELSE [reg EXCEPT !.custom_chords = RemoveAt(@, index + 1),
                   !.CHORD_PATTERNS = RemoveAt(@, index + 1)]

\* Result: reg
delete_custom_chord(reg, index) ==
  IF index < 0 \/ index >= Len(reg.custom_chords) THEN reg
  ELSE LET pattern == reg.custom_chords[index + 1]
           r1 == [reg EXCEPT !.custom_chords = RemoveAt(@, index + 1)]
       IN [r1 EXCEPT !.CHORD_PATTERNS = ListRemove(@, pattern)]

\* a capture of a single note is accepted
complete_learning_with_notes_one_note(reg, captured, ok, text, answer) ==
  IF captured = {}
  THEN [reg |-> reg, asked |-> FALSE, outcome |-> "no_notes", confirmed_ids |-> {}]
  ELSE IF Cardinality(captured) < 1
  THEN [reg |-> reg, asked |-> FALSE, outcome |-> "too_few_notes", confirmed_ids |-> {}]
  ELSE
    LET ordenadas == Sorted(captured)
        root_note == ordenadas[1]
        intervals == [i \in DOMAIN ordenadas |-> (ordenadas[i] - root_note) % 12]
        name == Strip(text)
    IN IF ~ok
       THEN [reg |-> reg, asked |-> FALSE, outcome |-> "name_cancelled",
             confirmed_ids |-> {}]
       ELSE IF name = <<>>
       THEN [reg |-> reg, asked |-> FALSE, outcome |-> "name_empty",
             confirmed_ids |-> {}]
       ELSE LET r == register_custom_chord(reg, name, intervals, answer)
            IN [reg |-> r.reg, asked |-> r.asked,
                outcome |-> IF r.done THEN "registered" ELSE "declined",
                confirmed_ids |-> r.confirmed_ids]

\* captured is the set of notes; ok and text are the reply to the name dialog.
\* Result: reg, asked, outcome, confirmed_ids
complete_learning_with_notes(reg, captured, ok, text, answer) ==
  IF captured = {}
  THEN [reg |-> reg, asked |-> FALSE, outcome |-> "no_notes", confirmed_ids |-> {}]
  ELSE IF Cardinality(captured) < 2
  THEN [reg |-> reg, asked |-> FALSE, outcome |-> "too_few_notes", confirmed_ids |-> {}]
  ELSE
    LET ordenadas == Sorted(captured)
        root_note == ordenadas[1]
        intervals == [i \in DOMAIN ordenadas |-> (ordenadas[i] - root_note) % 12]
        name == Strip(text)
    IN IF ~ok
       THEN [reg |-> reg, asked |-> FALSE, outcome |-> "name_cancelled",
             confirmed_ids |-> {}]
       ELSE IF name = <<>>
       THEN [reg |-> reg, asked |-> FALSE, outcome |-> "name_empty",
             confirmed_ids |-> {}]
       ELSE LET r == register_custom_chord(reg, name, intervals, answer)
            IN [reg |-> r.reg, asked |-> r.asked,
                outcome |-> IF r.done THEN "registered" ELSE "declined",
                confirmed_ids |-> r.confirmed_ids]

(***************************************************************************)
(* JSON values read from a dictionary or preferences file: each value is a *)
(* record tagged with its type t.  A dict carries JNull in a key it lacks  *)
(* (dict.get returns None for it).                                         *)
(***************************************************************************)
JNull == [t |-> "null"]
JInt(k) == [t |-> "int", n |-> k]
JStr(s) == [t |-> "str", s |-> s]
JList(items) == [t |-> "list", items |-> items]
JInts(s) == JList([i \in DOMAIN s |-> JInt(s[i])])
JChord(nombre, obligatorias, opcionales) ==
  [t |-> "dict", nombre |-> nombre, obligatorias |-> obligatorias,
   opcionales |-> opcionales]

\* bool(value)
Truthy(j) ==
  CASE j.t = "null" -> FALSE
    [] j.t = "int" -> j.n # 0
    [] j.t = "str" -> j.s # <<>>
    [] j.t = "list" -> j.items # <<>>
    [] OTHER -> TRUE

\* the Python object a name value stands for: the str itself, or a non-str
NameOf(j) == IF j.t = "str" THEN j.s ELSE <<NotAStr>>

Digits == 48..57

RECURSIVE DecimalValue(_)
DecimalValue(s) == IF s = <<>> THEN 0
                   ELSE 10 * DecimalValue(SubSeq(s, 1, Len(s) - 1)) + (s[Len(s)] - 48)

\* int(x) for one element: [ok, v]; ok is FALSE when int() raises.  A str is
\* parsed as an optionally signed run of decimal digits between whitespace
IntOf(j) ==
  CASE j.t = "int" -> [ok |-> TRUE, v |-> j.n]
    [] j.t = "str" ->
         LET body == Strip(j.s)
             signed == body # <<>> /\ body[1] \in {43, 45}
             digits == IF signed THEN Tail(body) ELSE body
         IN IF digits # <<>> /\ \A i \in DOMAIN digits : digits[i] \in Digits
            THEN [ok |-> TRUE,
                  v |-> IF signed /\ body[1] = 45 THEN -DecimalValue(digits)
                        ELSE DecimalValue(digits)]
            ELSE [ok |-> FALSE, v |-> 0]
    [] OTHER -> [ok |-> FALSE, v |-> 0]

\* [int(ivl) for ivl in value]: [ok, v]; a str is iterated character by
\* character, a value that is not iterable raises
IntList(j) ==
  LET items == CASE j.t = "list" -> j.items
                 [] j.t = "str" -> [i \in DOMAIN j.s |-> JStr(<<j.s[i]>>)]
                 [] OTHER -> <<>>
  IN IF j.t \notin {"list", "str"} THEN [ok |-> FALSE, v |-> <<>>]
     ELSE IF \E i \in DOMAIN items : ~IntOf(items[i]).ok THEN [ok |-> FALSE, v |-> <<>>]
     ELSE [ok |-> TRUE, v |-> [i \in DOMAIN items |-> IntOf(items[i]).v]]

(***************************************************************************)
(* Dictionary import.                                                      *)
(***************************************************************************)
\* the files a path can lead to
FileMissing == [kind |-> "missing"]
FileUnreadable == [kind |-> "unreadable"]     \* not UTF-8 or not JSON
FileJson(data) == [kind |-> "json", data |-> data]
JDictionary(chords) == [t |-> "dict", chords |-> chords]

\* one iteration of the loop over chords.  acc: reg, added, overwritten (ids)
ImportEntry(acc, chord, record_extra, allow_overwrite) ==
  IF chord.t # "dict" THEN acc
  ELSE
    LET name == IF Truthy(chord.nombre) THEN NameOf(chord.nombre) ELSE <<>>
        oblig == IF Truthy(chord.obligatorias) THEN chord.obligatorias ELSE JList(<<>>)
        opc == IF Truthy(chord.opcionales) THEN chord.opcionales ELSE JList(<<>>)
    IN IF ~Truthy(oblig) THEN acc
       ELSE IF ~IntList(oblig).ok \/ ~IntList(opc).ok THEN acc
       ELSE LET r == add_base_chord(acc.reg, name, IntList(oblig).v, IntList(opc).v,
                                    allow_overwrite, FALSE, record_extra, FALSE)
            IN [reg |-> r.reg,
                added |-> IF r.ret # 0 THEN acc.added + 1 ELSE acc.added,
                overwritten |-> IF r.overwritten # 0
                                THEN acc.overwritten \cup {r.overwritten}
                                ELSE acc.overwritten]

\* the loop over chords; an entry that is skipped leaves acc as it is
RECURSIVE ImportLoop(_, _, _, _)
ImportLoop(acc, chords, record_extra, allow_overwrite) ==
  IF chords = <<>> THEN acc
  ELSE LET next == ImportEntry(acc, Head(chords), record_extra, allow_overwrite)
       IN IF next = acc
          THEN ImportLoop(acc, Tail(chords), record_extra, allow_overwrite)
          ELSE ImportLoop(next, Tail(chords), record_extra, allow_overwrite)

\* Result: reg, added (the int returned), overwritten (ids overwritten in place)
import_dictionary_from_path(reg, file, record_extra, allow_overwrite) ==
  LET nothing == [reg |-> reg, added |-> 0, overwritten |-> {}]
  IN IF file.kind # "json" THEN nothing
     ELSE IF file.data.t # "dict" THEN nothing
     ELSE IF file.data.chords.t # "list" THEN nothing
     ELSE ImportLoop(nothing, file.data.chords.items, record_extra, allow_overwrite)

(***************************************************************************)
(* Replay of the preferences file (the part of load_preferences that       *)
(* touches the registry).                                                  *)
(***************************************************************************)
JBaseItem(nombre, obligatorias, opcionales) ==
  [t |-> "dict", nombre |-> nombre, obligatorias |-> obligatorias,
   opcionales |-> opcionales]
JCustomItem(nombre, intervalos) ==
  [t |-> "dict", nombre |-> nombre, intervalos |-> intervalos]
JPrefs(base_chords, custom) ==
  [t |-> "dict", base_chords |-> base_chords, custom_chords |-> custom]

\* isinstance(x, list) and all(isinstance(i, int) for i in x)
AllInts(j) == j.t = "list" /\ \A i \in DOMAIN j.items : j.items[i].t = "int"

\* acc: reg, raised, overwritten, asked, confirmed_ids
ReplayBaseItem(acc, item) ==
  IF acc.raised THEN acc
  ELSE IF item.t # "dict" THEN acc
  ELSE IF ~(item.nombre.t = "str" /\ AllInts(item.obligatorias)) THEN acc
  ELSE IF item.opcionales.t = "list" /\ ~IntList(item.opcionales).ok
       THEN [acc EXCEPT !.raised = TRUE]     \* int(x) raises out of load_preferences
  ELSE LET opc == IF item.opcionales.t = "list" THEN IntList(item.opcionales).v ELSE <<>>
           r == add_base_chord(acc.reg, item.nombre.s, IntList(item.obligatorias).v, opc,
                               TRUE, FALSE, TRUE, FALSE)
       IN [acc EXCEPT !.reg = r.reg,
                      !.overwritten = IF r.overwritten # 0 THEN @ \cup {r.overwritten} ELSE @]

RECURSIVE ReplayBase(_, _)
ReplayBase(acc, items) ==
  IF items = <<>> THEN acc ELSE ReplayBase(ReplayBaseItem(acc, Head(items)), Tail(items))

\* answers[k] is the reply to the question asked for the k-th custom item
RECURSIVE ReplayCustom(_, _, _, _)
ReplayCustom(acc, items, k, answers) ==
  IF acc.raised \/ k > Len(items) THEN acc
  ELSE LET item == items[k]
       IN IF item.t = "dict" /\ item.nombre.t = "str" /\ item.nombre.s # <<>>
             /\ AllInts(item.intervalos)
          THEN LET r == register_custom_chord(acc.reg, item.nombre.s,
                                              IntList(item.intervalos).v, answers[k])
               IN ReplayCustom([acc EXCEPT !.reg = r.reg,
                                           !.asked = @ \/ r.asked,
                                           !.confirmed_ids = @ \cup r.confirmed_ids],
                               items, k + 1, answers)
          ELSE ReplayCustom(acc, items, k + 1, answers)

\* Result: reg, raised (an exception left the handler), overwritten, asked,
\* confirmed_ids
load_preferences(reg, file, answers) ==
  LET nothing == [reg |-> reg, raised |-> FALSE, overwritten |-> {},
                  asked |-> FALSE, confirmed_ids |-> {}]
  IN IF file.kind # "json" THEN nothing
     ELSE LET prefs == file.data
              afterBase == IF prefs.base_chords.t = "list"
                           THEN ReplayBase(nothing, prefs.base_chords.items)
                           ELSE nothing
          IN IF prefs.custom_chords.t = "list"
             THEN ReplayCustom(afterBase, prefs.custom_chords.items, 1, answers)
             ELSE afterBase

(***************************************************************************)
(* The state of the registry as one record, and the inputs of the model.   *)
(***************************************************************************)
Reg == [CHORD_PATTERNS |-> CHORD_PATTERNS,
        custom_chords |-> custom_chords,
        additional_base_chords |-> additional_base_chords,
        additional_base_signatures |-> additional_base_signatures]

SetReg(reg) ==
  /\ CHORD_PATTERNS' = reg.CHORD_PATTERNS
  /\ custom_chords' = reg.custom_chords
  /\ additional_base_chords' = reg.additional_base_chords
  /\ additional_base_signatures' = reg.additional_base_signatures

\* module load (line 158) and ControlWindow.__init__ (lines 886-888)
InitialReg == [CHORD_PATTERNS |-> InitialPatterns,
               custom_chords |-> <<>>,
               additional_base_chords |-> <<>>,
               additional_base_signatures |-> {}]

\* the registry stays within the bounds of the model
WithinBounds(reg) ==
  /\ Len(reg.custom_chords) <= MaxCustom
  /\ Len(reg.CHORD_PATTERNS) - Len(reg.custom_chords) <= NumBase + MaxAdded

\* names typed by the user or read from a file: "X" and "Y"
NameX == <<88>>
NameY == <<89>>

\* texts typed in a name dialog: nothing, "X", " Y "
DialogTexts == {<<>>, NameX, <<32>> \o NameY \o <<32>>}

\* the notes a capture can hold: the lowest note and the one above it
LearnNotes == {NoteLo, NoteLo + 1}

\* replies to a name dialog: cancelled, or accepted with a text
DialogReplies == {<<FALSE, <<>>>>} \cup {<<TRUE, text>> : text \in DialogTexts}

\* entries of the "chords" list of a dictionary file
ImportEntries ==
  { JChord(JStr(NameX), JInts(<<4, 7>>), JNull),                \* the major triad, renamed
    JChord(JInt(7), JList(<<JInt(13), JStr(<<45, 49, 49>>)>>), JInts(<<12, 1>>)),
                       \* name 7, obligatorias [13, "-11"], optional overlapping obligatory
    JChord(JStr(NameX), JList(<<JInt(1), JStr(<<120>>)>>), JNull) } \* obligatorias [1, "x"]

\* what a dictionary path can lead to, with at most n entries
FilesWith(n) ==
  {FileMissing, FileUnreadable, FileJson(JList(<<>>)), FileJson(JDictionary(JNull))}
  \cup {FileJson(JDictionary(JList(es))) : es \in SeqsUpTo(ImportEntries, n)}

\* the two dictionaries read at startup
StartupFiles ==
  {FileMissing} \cup {FileJson(JDictionary(JList(es))) : es \in SeqsUpTo(ImportEntries, MaxEntries)}

\* the dictionary chosen in the file dialog
DialogFiles == FilesWith(MaxEntries)

\* items of base_chords in the preferences file
PrefBaseItems ==
  { JBaseItem(JStr(NameX), JInts(<<4, 7>>), JNull),
    JBaseItem(JStr(NameX), JInts(<<1>>), JList(<<JStr(<<120>>)>>)) }   \* opcionales ["x"]

\* items of custom_chords in the preferences file
PrefCustomItems ==
  { JCustomItem(JStr(NameX), JInts(<<0, 1>>)),
    JCustomItem(JStr(NameY), JInts(<<13>>)) }

PrefFiles ==
  {FileMissing, FileUnreadable}
  \cup {FileJson(JPrefs(b, c)) :
          b \in {JNull} \cup {JList(s) : s \in SeqsUpTo(PrefBaseItems, MaxEntries)},
          c \in {JNull} \cup {JList(s) : s \in SeqsUpTo(PrefCustomItems, MaxEntries)}}

(***************************************************************************)
(* The application: startup, then the handlers of the control window.      *)
(* last.op is the handler that ran last; it also tells how far the         *)
(* constructor has got.                                                    *)
(***************************************************************************)
\* lines 882-884 and 889-898 of the constructor: no note sounds, the learner is idle
QuietKeyboard ==
  /\ active_notes = {}
  /\ sustained_notes = {}
  /\ sustain_on = FALSE

IdleLearner ==
  /\ learning_chord = FALSE
  /\ learning_waiting_first_note = FALSE
  /\ learning_capture_notes = {}
  /\ capture_timer = FALSE

\* the learner as one record
Learner == [learning_chord |-> learning_chord,
            learning_waiting_first_note |-> learning_waiting_first_note,
            learning_capture_notes |-> learning_capture_notes,
            capture_timer |-> capture_timer]

SetLearner(l) ==
  /\ learning_chord' = l.learning_chord
  /\ learning_waiting_first_note' = l.learning_waiting_first_note
  /\ learning_capture_notes' = l.learning_capture_notes
  /\ capture_timer' = l.capture_timer

\* a reset that leaves the learner as it is
reset_learning_state_nothing(l) == l

reset_learning_state(l) ==
  [learning_chord |-> FALSE,
   learning_waiting_first_note |-> FALSE,
   learning_capture_notes |-> {},
   capture_timer |-> FALSE]

Init ==
  /\ CHORD_PATTERNS = InitialReg.CHORD_PATTERNS
  /\ custom_chords = InitialReg.custom_chords
  /\ additional_base_chords = InitialReg.additional_base_chords
  /\ additional_base_signatures = InitialReg.additional_base_signatures
  /\ last = [op |-> "init", asked |-> FALSE, confirmed |-> {}]
  /\ notas = <<>>
  /\ matches = <<>>
  /\ info = NotCalled
  /\ QuietKeyboard
  /\ IdleLearner

\* the constructor has returned and the event loop runs
Running == last.op \notin {"init", "load_external_chord_dictionary", "crashed"}

\* line 903 of the constructor
LoadExternalChordDictionary(config_dict, project_dict) ==
  /\ last.op = "init"
  /\ \E r1 \in {import_dictionary_from_path(Reg, config_dict, TRUE, FALSE)} :
     \E r2 \in {import_dictionary_from_path(r1.reg, project_dict, FALSE, FALSE)} :
       /\ WithinBounds(r2.reg)
       /\ SetReg(r2.reg)
  /\ last' = [op |-> "load_external_chord_dictionary", asked |-> FALSE,
              confirmed |-> {}]
  /\ UNCHANGED <<matchVars, midiVars, learnVars>>

\* line 1063 of the constructor; an exception that leaves load_preferences
\* leaves the constructor too, and the application does not start
LoadPreferences(file, answers) ==
  /\ last.op = "load_external_chord_dictionary"
  /\ \E r \in {load_preferences(Reg, file, answers)} :
     /\ WithinBounds(r.reg)
     /\ SetReg(r.reg)
     /\ last' = [op |-> IF r.raised THEN "crashed" ELSE "load_preferences",
                 asked |-> r.asked, confirmed |-> r.confirmed_ids]
     /\ UNCHANGED <<matchVars, midiVars, learnVars>>

\* menu entry "load dictionary"; chosen is FALSE when the file dialog is cancelled
LoadChordDictionaryFromDialog(chosen, file) ==
  /\ Running
  /\ (chosen \/ file = FileMissing)
  /\ \E r \in {IF chosen THEN import_dictionary_from_path(Reg, file, TRUE, TRUE)
                ELSE [reg |-> Reg, added |-> 0, overwritten |-> {}]} :
     /\ WithinBounds(r.reg)
     /\ SetReg(r.reg)
     /\ last' = [op |-> "load_chord_dictionary_from_dialog", asked |-> FALSE,
                 confirmed |-> {}]
     /\ UNCHANGED <<matchVars, midiVars, learnVars>>

\* the end of a capture
CompleteLearningWithNotes(captured, ok, text, answer) ==
  /\ Running
  /\ \E r \in {complete_learning_with_notes(Reg, captured, ok, text, answer)} :
     /\ WithinBounds(r.reg)
     /\ SetReg(r.reg)
     /\ last' = [op |-> "complete_learning_with_notes", asked |-> r.asked,
                 confirmed |-> r.confirmed_ids]
     /\ SetLearner(reset_learning_state(Learner))
     /\ UNCHANGED <<matchVars, midiVars>>

\* the three buttons of row index of the learned-chords list
EditCustomChordName(index, ok, text) ==
  /\ Running
  /\ \E reg \in {edit_custom_chord_name(Reg, index, ok, text)} : SetReg(reg)
  /\ last' = [op |-> "edit_custom_chord_name", asked |-> FALSE, confirmed |-> {}]
  /\ UNCHANGED <<matchVars, midiVars, learnVars>>

MoveCustomToBase(index, answer) ==
  /\ Running
  /\ \E r \in {move_custom_to_base(Reg, index, answer)} :
     /\ WithinBounds(r.reg)
     /\ SetReg(r.reg)
     /\ last' = [op |-> "move_custom_to_base", asked |-> r.asked,
                 confirmed |-> r.confirmed_ids, index |-> index, answer |-> answer]
     /\ UNCHANGED <<matchVars, midiVars, learnVars>>

DeleteCustomChord(index) ==
  /\ Running
  /\ \E reg \in {delete_custom_chord(Reg, index)} : SetReg(reg)
  /\ last' = [op |-> "delete_custom_chord", asked |-> FALSE, confirmed |-> {}]
  /\ UNCHANGED <<matchVars, midiVars, learnVars>>

\* the rows shown by _refresh_learned_chords_ui
RowIndices == 0..(Len(custom_chords) - 1)

Next ==
  \/ \E config_dict, project_dict \in StartupFiles :
       LoadExternalChordDictionary(config_dict, project_dict)
  \/ \E file \in PrefFiles, answers \in [1..MaxEntries -> BOOLEAN] :
       LoadPreferences(file, answers)
  \/ \E chosen \in BOOLEAN, file \in DialogFiles :
       LoadChordDictionaryFromDialog(chosen, file)
  \/ \E captured \in SUBSET LearnNotes, reply \in DialogReplies, answer \in BOOLEAN :
       CompleteLearningWithNotes(captured, reply[1], reply[2], answer)
  \/ \E index \in RowIndices, reply \in DialogReplies :
       EditCustomChordName(index, reply[1], reply[2])
  \/ \E index \in RowIndices, answer \in BOOLEAN : MoveCustomToBase(index, answer)
  \/ \E index \in RowIndices : DeleteCustomChord(index)

Spec == Init /\ [][Next]_vars

(***************************************************************************)
(* The matcher on its own: one call of analizar_cifrado_alternativos on a  *)
(* registry the application can have reached.                              *)
(***************************************************************************)
Notes == NoteLo..NoteHi

\* the lists passed in notas: sorted lists of distinct notes, and a note twice
NotasInputs ==
  {Sorted(S) : S \in {T \in SUBSET Notes : Cardinality(T) <= MaxNotes}}
  \cup {<<n, n>> : n \in Notes}

\* registries reached by learning and importing, built with the operations above
LearnedDim7 ==
  complete_learning_with_notes(InitialReg, {60, 63, 66, 69}, TRUE, NameX, FALSE).reg
LearnedTriad ==
  complete_learning_with_notes(InitialReg, {60, 64, 67}, TRUE, NameY, FALSE).reg
ImportedCluster ==
  import_dictionary_from_path(
    InitialReg,
    FileJson(JDictionary(JList(<<JChord(JInt(7), JInts(<<1>>), JNull)>>))),
    TRUE, TRUE).reg

MatcherRegistries == {InitialReg, LearnedDim7, LearnedTriad, ImportedCluster}

InitMatcher ==
  /\ \E reg \in MatcherRegistries :
       /\ CHORD_PATTERNS = reg.CHORD_PATTERNS
       /\ custom_chords = reg.custom_chords
       /\ additional_base_chords = reg.additional_base_chords
       /\ additional_base_signatures = reg.additional_base_signatures
  /\ last = [op |-> "init", asked |-> FALSE, confirmed |-> {}]
  /\ notas \in NotasInputs
  /\ matches = <<>>
  /\ info = NotCalled
  /\ QuietKeyboard
  /\ IdleLearner

\* update_chord calls the matcher with the sorted list of the sounding notes
Analizar ==
  /\ info = NotCalled
  /\ \E r \in {analizar_cifrado_alternativos(notas, CHORD_PATTERNS)} :
     /\ matches' = r.matches
     /\ info' = r.info
     /\ last' = [op |-> "analizar_cifrado_alternativos", asked |-> FALSE,
                 confirmed |-> {}]
     /\ UNCHANGED <<regVars, notas, midiVars, learnVars>>

NextMatcher == Analizar

SpecMatcher == InitMatcher /\ [][NextMatcher]_vars


(***************************************************************************)
(* The matcher on the built-in patterns in root position.                  *)
(***************************************************************************)
\* every built-in pattern on every root: the root on the lowest note, each
\* obligatory interval above it, and the root sounding again an octave higher
\* or not
InitRootPosition ==
  /\ CHORD_PATTERNS = InitialReg.CHORD_PATTERNS
  /\ custom_chords = InitialReg.custom_chords
  /\ additional_base_chords = InitialReg.additional_base_chords
  /\ additional_base_signatures = InitialReg.additional_base_signatures
  /\ last = [op |-> "init", asked |-> FALSE, confirmed |-> {}]
  /\ \E k \in DOMAIN BASE_CHORD_PATTERNS, root \in 0..11, octave \in SUBSET {12} :
       notas = Sorted({NoteLo + root} \cup {NoteLo + root + o : o \in octave}
                      \cup {NoteLo + root + (BASE_CHORD_PATTERNS[k].obligatorias[i] % 12) :
                              i \in DOMAIN BASE_CHORD_PATTERNS[k].obligatorias})
  /\ matches = <<>>
  /\ info = NotCalled
  /\ QuietKeyboard
  /\ IdleLearner

SpecRootPosition == InitRootPosition /\ [][NextMatcher]_vars
(***************************************************************************)
(* _add_base_chord on its own: one call on a registry the application can  *)
(* have reached.  In the initial states last holds the arguments of the    *)
(* call, afterwards what it returned.                                      *)
(***************************************************************************)
LearnedCluster ==
  complete_learning_with_notes(InitialReg, {60, 61}, TRUE, NameX, FALSE).reg

AddBaseRegistries == {InitialReg, LearnedCluster, LearnedTriad, ImportedCluster}

AddBaseNames == {<<>>, NameX}
AddBaseObligatorias == {<<4, 7>>, <<1>>, <<13, -11>>, <<7, 16, 4>>, <<6>>}
AddBaseOpcionales == {<<>>, <<12, 1>>, <<14, 2>>}

InitAddBase ==
  /\ \E reg \in AddBaseRegistries :
       /\ CHORD_PATTERNS = reg.CHORD_PATTERNS
       /\ custom_chords = reg.custom_chords
       /\ additional_base_chords = reg.additional_base_chords
       /\ additional_base_signatures = reg.additional_base_signatures
  /\ \E name \in AddBaseNames, obligatorias \in AddBaseObligatorias,
        opcionales \in AddBaseOpcionales,
        allow_overwrite, prompt_on_conflict, record_extra \in BOOLEAN :
       last = [op |-> "call", name |-> name, obligatorias |-> obligatorias,
               opcionales |-> opcionales, allow_overwrite |-> allow_overwrite,
               prompt_on_conflict |-> prompt_on_conflict,
               record_extra |-> record_extra]
  /\ notas = <<>>
  /\ matches = <<>>
  /\ info = NotCalled
  /\ QuietKeyboard
  /\ IdleLearner

\* the call; answer is the reply to the question, if it is asked
AddBaseChord(answer) ==
  /\ last.op = "call"
  /\ \E r \in {add_base_chord(Reg, last.name, last.obligatorias, last.opcionales,
                              last.allow_overwrite, last.prompt_on_conflict,
                              last.record_extra, answer)} :
       /\ SetReg(r.reg)
       /\ last' = [op |-> "add_base_chord", allow_overwrite |-> last.allow_overwrite,
                   ret |-> r.ret, asked |-> r.asked,
                   confirmed |-> IF r.asked /\ r.overwritten # 0
                                 THEN {r.overwritten} ELSE {}]
  /\ UNCHANGED <<matchVars, midiVars, learnVars>>

NextAddBase == \E answer \in BOOLEAN : AddBaseChord(answer)

SpecAddBase == InitAddBase /\ [][NextAddBase]_vars

(***************************************************************************)
(* The learner: the "Midi learn" button, the MIDI poll and the capture     *)
(* countdown.  A MIDI message is a record with the fields the poll reads.  *)
(***************************************************************************)
MaxMsgs == 2      \* messages pending at one poll

NoteOn(n) == [type |-> "note_on", note |-> n, velocity |-> 64]
NoteOff(n) == [type |-> "note_off", note |-> n, velocity |-> 0]
Sustain(v) == [type |-> "control_change", control |-> 64, value |-> v]

\* the messages a keyboard with two keys and a pedal sends
Messages == {NoteOn(n) : n \in LearnNotes} \cup {NoteOff(n) : n \in LearnNotes}
            \cup {Sustain(127), Sustain(0)}

\* what iter_pending() can yield at one poll
Pending == SeqsUpTo(Messages, MaxMsgs)

\* the keyboard as one record, with the two flags of the poll in progress
Keyboard == [active_notes |-> active_notes, sustained_notes |-> sustained_notes,
             sustain_on |-> sustain_on, changed |-> FALSE, new_note_on |-> FALSE]

SetKeyboard(kb) ==
  /\ active_notes' = kb.active_notes
  /\ sustained_notes' = kb.sustained_notes
  /\ sustain_on' = kb.sustain_on

\* a faulty loop body, to show what the invariants of the two note sets rest
\* on: a key pressed again is not taken out of the sustained notes
handle_message_keeps_sustained(kb, msg) ==
  IF msg.type = "control_change"
  THEN IF msg.control # 64 THEN kb
       ELSE IF msg.value >= 64 THEN [kb EXCEPT !.sustain_on = TRUE]
       ELSE IF kb.sustained_notes # {}
            THEN [kb EXCEPT !.sustain_on = FALSE, !.sustained_notes = {},
                            !.changed = TRUE]
            ELSE [kb EXCEPT !.sustain_on = FALSE]
  ELSE IF msg.type \in {"note_on", "note_off"}
  THEN IF msg.type = "note_on" /\ msg.velocity > 0
       THEN [kb EXCEPT !.active_notes = @ \cup {msg.note},
                       !.new_note_on = TRUE, !.changed = TRUE]
       ELSE IF kb.sustain_on
            THEN [kb EXCEPT !.active_notes = @ \ {msg.note},
                            !.sustained_notes = @ \cup {msg.note},
                            !.changed = TRUE]
            ELSE [kb EXCEPT !.active_notes = @ \ {msg.note},
                            !.sustained_notes = @ \ {msg.note},
                            !.changed = TRUE]
  ELSE kb

\* the body of the loop over the pending messages
handle_message(kb, msg) ==
  IF msg.type = "control_change"
  THEN IF msg.control # 64 THEN kb
       ELSE IF msg.value >= 64 THEN [kb EXCEPT !.sustain_on = TRUE]
       ELSE IF kb.sustained_notes # {}
            THEN [kb EXCEPT !.sustain_on = FALSE, !.sustained_notes = {},
                            !.changed = TRUE]
            ELSE [kb EXCEPT !.sustain_on = FALSE]
  ELSE IF msg.type \in {"note_on", "note_off"}
  THEN IF msg.type = "note_on" /\ msg.velocity > 0
       THEN [kb EXCEPT !.active_notes = @ \cup {msg.note},
                       !.sustained_notes = @ \ {msg.note},
                       !.new_note_on = TRUE, !.changed = TRUE]
       ELSE IF kb.sustain_on
            THEN [kb EXCEPT !.active_notes = @ \ {msg.note},
                            !.sustained_notes = @ \cup {msg.note},
                            !.changed = TRUE]
            ELSE [kb EXCEPT !.active_notes = @ \ {msg.note},
                            !.sustained_notes = @ \ {msg.note},
                            !.changed = TRUE]
  ELSE kb

RECURSIVE handle_messages(_, _)
handle_messages(kb, msgs) ==
  IF msgs = <<>> THEN kb
  ELSE handle_messages(handle_message(kb, Head(msgs)), Tail(msgs))

begin_capture_window(l, notas_actuales) ==
  [l EXCEPT !.learning_waiting_first_note = FALSE,
            !.learning_capture_notes = notas_actuales,
            !.capture_timer = TRUE]

absorb_capture_notes(l, notas_actuales) ==
  [l EXCEPT !.learning_capture_notes = @ \cup notas_actuales]

\* lines 2428-2432: the learner's part of the poll
learner_after_poll(l, kb, notas_para_acorde) ==
  IF ~l.learning_chord THEN l
  ELSE IF l.learning_waiting_first_note /\ kb.new_note_on /\ notas_para_acorde # {}
  THEN begin_capture_window(l, notas_para_acorde)
  ELSE IF l.capture_timer THEN absorb_capture_notes(l, notas_para_acorde)
  ELSE l

\* Result: kb, l, called (update_chord was called), r (what the matcher gave).
\* An exception raised by the matcher leaves update_chord and is swallowed by
\* the except clause of the poll: the learner's part is not reached
poll_midi(kb0, l, patterns, msgs) ==
  LET kb == handle_messages(kb0, msgs)
      notas_para_acorde == kb.active_notes \cup kb.sustained_notes
      r == analizar_cifrado_alternativos(Sorted(notas_para_acorde), patterns)
  IN IF ~kb.changed THEN [kb |-> kb, l |-> l, called |-> FALSE, r |-> r]
     ELSE IF r.info = Raised THEN [kb |-> kb, l |-> l, called |-> TRUE, r |-> r]
     ELSE [kb |-> kb, l |-> learner_after_poll(l, kb, notas_para_acorde),
           called |-> TRUE, r |-> r]

\* _complete_learning_with_notes with its first line, the reset of the learner.
\* Result: l, reg, captured (the notes it was handed), outcome, asked,
\* confirmed_ids
finalize(l, reg, captured, ok, text, answer) ==
  LET r == complete_learning_with_notes(reg, captured, ok, text, answer)
  IN [l |-> reset_learning_state(l), reg |-> r.reg, captured |-> captured,
      outcome |-> r.outcome, asked |-> r.asked, confirmed_ids |-> r.confirmed_ids]

\* the button pressed while notes sound opens the capture window instead
start_learning_mode_always_waits(l, held, reg, ok, text, answer) ==
  IF l.learning_chord
  THEN [l |-> reset_learning_state(l), reg |-> reg, captured |-> {},
        outcome |-> "cancelled", asked |-> FALSE, confirmed_ids |-> {}]
  ELSE [l |-> [l EXCEPT !.learning_chord = TRUE,
                        !.learning_waiting_first_note = TRUE],
        reg |-> reg, captured |-> {}, outcome |-> "waiting",
        asked |-> FALSE, confirmed_ids |-> {}]

\* the "Midi learn" button; held is active_notes | sustained_notes
start_learning_mode(l, held, reg, ok, text, answer) ==
  IF l.learning_chord
  THEN [l |-> reset_learning_state(l), reg |-> reg, captured |-> {},
        outcome |-> "cancelled", asked |-> FALSE, confirmed_ids |-> {}]
  ELSE IF held # {}
  THEN finalize([l EXCEPT !.learning_chord = TRUE], reg, held, ok, text, answer)
  ELSE [l |-> [l EXCEPT !.learning_chord = TRUE,
                        !.learning_waiting_first_note = TRUE],
        reg |-> reg, captured |-> {}, outcome |-> "waiting",
        asked |-> FALSE, confirmed_ids |-> {}]

\* the countdown fires
finish_capture_window(l, reg, ok, text, answer) ==
  finalize(l, reg, l.learning_capture_notes, ok, text, answer)

(***************************************************************************)
(* The learner on a running application.  last records, for a poll, the    *)
(* notes whose note-on it read and the handler that ran before it.         *)
(***************************************************************************)
LearnerRegistries == {InitialReg, ImportedCluster}

InitLearner ==
  /\ \E reg \in LearnerRegistries :
       /\ CHORD_PATTERNS = reg.CHORD_PATTERNS
       /\ custom_chords = reg.custom_chords
       /\ additional_base_chords = reg.additional_base_chords
       /\ additional_base_signatures = reg.additional_base_signatures
  /\ last = [op |-> "load_preferences", asked |-> FALSE, confirmed |-> {},
             captured |-> {}, outcome |-> "", note_ons |-> {}, prev |-> ""]
  /\ notas = <<>>
  /\ matches = <<>>
  /\ info = NotCalled
  /\ QuietKeyboard
  /\ IdleLearner

\* the notes whose note-on is among msgs
NoteOns(msgs) ==
  {msgs[i].note : i \in {j \in DOMAIN msgs : msgs[j].type = "note_on" /\ msgs[j].velocity > 0}}

\* one tick of the 10 ms timer, the MIDI port being open
PollMidi(msgs) ==
  /\ \E p \in {poll_midi(Keyboard, Learner, CHORD_PATTERNS, msgs)} :
       /\ SetKeyboard(p.kb)
       /\ SetLearner(p.l)
       /\ IF p.called
          THEN /\ notas' = Sorted(p.kb.active_notes \cup p.kb.sustained_notes)
               /\ matches' = p.r.matches
               /\ info' = p.r.info
          ELSE UNCHANGED matchVars
  /\ last' = [op |-> "poll_midi", asked |-> FALSE, confirmed |-> {},
              captured |-> {}, outcome |-> "", note_ons |-> NoteOns(msgs),
              prev |-> IF last.op = "poll_midi" THEN last.prev ELSE last.op]
  /\ UNCHANGED regVars

StartLearningMode(ok, text, answer) ==
  /\ \E s \in {start_learning_mode(Learner, active_notes \cup sustained_notes, Reg,
                                   ok, text, answer)} :
       /\ WithinBounds(s.reg)
       /\ SetReg(s.reg)
       /\ SetLearner(s.l)
       /\ last' = [op |-> "start_learning_mode", asked |-> s.asked,
                   confirmed |-> s.confirmed_ids, captured |-> s.captured,
                   outcome |-> s.outcome, note_ons |-> {}, prev |-> ""]
  /\ UNCHANGED <<matchVars, midiVars>>

FinishCaptureWindow(ok, text, answer) ==
  /\ capture_timer
  /\ \E f \in {finish_capture_window(Learner, Reg, ok, text, answer)} :
       /\ WithinBounds(f.reg)
       /\ SetReg(f.reg)
       /\ SetLearner(f.l)
       /\ last' = [op |-> "finish_capture_window", asked |-> f.asked,
                   confirmed |-> f.confirmed_ids, captured |-> f.captured,
                   outcome |-> f.outcome, note_ons |-> {}, prev |-> ""]
  /\ UNCHANGED <<matchVars, midiVars>>

NextLearner ==
  \/ \E msgs \in Pending : PollMidi(msgs)
  \/ \E reply \in DialogReplies, answer \in BOOLEAN :
       StartLearningMode(reply[1], reply[2], answer)
  \/ \E reply \in DialogReplies, answer \in BOOLEAN :
       FinishCaptureWindow(reply[1], reply[2], answer)

SpecLearner == InitLearner /\ [][NextLearner]_vars

(***************************************************************************)
(* _complete_learning_with_notes on its own: one call on a registry the    *)
(* application can have reached.  In the initial states last holds the     *)
(* notes handed to the call and the replies the dialogs will get.          *)
(***************************************************************************)
LearnedBoth ==
  complete_learning_with_notes(LearnedCluster, {60, 64, 67}, TRUE, NameY, FALSE).reg

FinalizeRegistries == {InitialReg, LearnedCluster, LearnedTriad, LearnedBoth}

\* the keys a capture can hold: two octaves of the same class among them
FinalizeNotes == {NoteLo, NoteLo + 1, NoteLo + 4, NoteLo + 7, NoteLo + 12, NoteLo + 13}

InitFinalize ==
  /\ \E reg \in FinalizeRegistries :
       /\ CHORD_PATTERNS = reg.CHORD_PATTERNS
       /\ custom_chords = reg.custom_chords
       /\ additional_base_chords = reg.additional_base_chords
       /\ additional_base_signatures = reg.additional_base_signatures
  /\ \E captured \in SUBSET FinalizeNotes, reply \in DialogReplies, answer \in BOOLEAN :
       last = [op |-> "call", captured |-> captured, ok |-> reply[1],
               text |-> reply[2], answer |-> answer]
  /\ notas = <<>>
  /\ matches = <<>>
  /\ info = NotCalled
  /\ QuietKeyboard
  /\ IdleLearner

CompleteLearning ==
  /\ last.op = "call"
  /\ \E f \in {finalize(Learner, Reg, last.captured, last.ok, last.text, last.answer)} :
       /\ SetReg(f.reg)
       /\ SetLearner(f.l)
       /\ last' = [op |-> "complete_learning_with_notes", captured |-> f.captured,
                   outcome |-> f.outcome, asked |-> f.asked,
                   confirmed |-> f.confirmed_ids]
  /\ UNCHANGED <<matchVars, midiVars>>

NextFinalize == CompleteLearning

SpecFinalize == InitFinalize /\ [][NextFinalize]_vars

(***************************************************************************)
(* _import_dictionary_from_path on its own: one call on a registry the     *)
(* application can have reached.  In the initial states last holds the     *)
(* file and the two flags of the call, afterwards the number it returned.  *)
(***************************************************************************)
MaxImport == 2    \* entries of the dictionary file of one import

\* entries of the "chords" list: well-formed ones and malformed ones
FileEntries ==
  { JChord(JStr(NameX), JInts(<<4, 7>>), JNull),       \* the major triad; no opcionales
    JChord(JStr(NameY), JInts(<<1>>), JList(<<>>)),    \* a new shape
    JChord(JStr(NameY), JInts(<<4, 7>>), JInts(<<2>>)),  \* a new shape with an optional
    JChord(JStr(NameX), JList(<<JInt(1), JStr(<<120>>)>>), JNull),  \* obligatorias [1, "x"]
    JChord(JNull, JStr(<<52, 55>>), JList(<<>>)),      \* no nombre; obligatorias "47"
    JChord(JStr(NameY), JInt(5), JNull),               \* obligatorias 5
    JStr(NameX) }                                      \* not an object

ImportRegistries == {InitialReg, LearnedCluster, ImportedCluster}

InitImport ==
  /\ \E reg \in ImportRegistries :
       /\ CHORD_PATTERNS = reg.CHORD_PATTERNS
       /\ custom_chords = reg.custom_chords
       /\ additional_base_chords = reg.additional_base_chords
       /\ additional_base_signatures = reg.additional_base_signatures
  /\ \E es \in SeqsUpTo(FileEntries, MaxImport), record_extra, allow_overwrite \in BOOLEAN :
       last = [op |-> "call", entries |-> es, record_extra |-> record_extra,
               allow_overwrite |-> allow_overwrite]
  /\ notas = <<>>
  /\ matches = <<>>
  /\ info = NotCalled
  /\ QuietKeyboard
  /\ IdleLearner

ImportDictionary ==
  /\ last.op = "call"
  /\ \E r \in {import_dictionary_from_path(Reg, FileJson(JDictionary(JList(last.entries))),
                                           last.record_extra, last.allow_overwrite)} :
       /\ SetReg(r.reg)
       /\ last' = [op |-> "import_dictionary_from_path", entries |-> last.entries,
                   record_extra |-> last.record_extra,
                   allow_overwrite |-> last.allow_overwrite,
                   added |-> r.added, overwritten |-> r.overwritten]
  /\ UNCHANGED <<matchVars, midiVars, learnVars>>

NextImport == ImportDictionary

SpecImport == InitImport /\ [][NextImport]_vars

(***************************************************************************)
(* Note spelling (src/music_theory.py).  The tokens looked for in a chord  *)
(* name are the str literals of the source, code point by code point.      *)
(***************************************************************************)
NOTE_NAMES == <<<<67>>, <<67, 35>>, <<68>>, <<68, 35>>, <<69>>, <<70>>, <<70, 35>>, <<71>>, <<71, 35>>, <<65>>, <<65, 35>>, <<66>>>>
NOTE_LETTERS == <<<<67>>, <<68>>, <<69>>, <<70>>, <<71>>, <<65>>, <<66>>>>

\* NOTE_LETTER_TO_INDEX[letter]: the 0-based index of letter in NOTE_LETTERS
NOTE_LETTER_TO_INDEX(letter) ==
  (CHOOSE i \in DOMAIN NOTE_LETTERS : NOTE_LETTERS[i] = letter) - 1

\* NOTE_LETTER_TO_PC[letter]
NOTE_LETTER_TO_PC(letter) ==
  CASE letter = <<67>> -> 0 [] letter = <<68>> -> 2 [] letter = <<69>> -> 4 [] letter = <<70>> -> 5
    [] letter = <<71>> -> 7 [] letter = <<65>> -> 9 [] letter = <<66>> -> 11

\* token in name
Contains(name, token) ==
  \E i \in 0..(Len(name) - Len(token)) : SubSeq(name, i + 1, i + Len(token)) = token


\* _parse_root_spelling: the letter (<<NotAStr>> for None) and the accidental
\* of the root that opens a chord name
parse_root_spelling(chord_name) ==
  LET slashes == {i \in DOMAIN chord_name : chord_name[i] = 47}
      first == IF slashes = {} THEN chord_name
               ELSE SubSeq(chord_name, 1, SetMin(slashes) - 1)
      root == Strip(first)
      letter == IF root[1] \in 97..122 THEN <<root[1] - 32>> ELSE <<root[1]>>
      one == IF Len(root) > 1 /\ root[2] \in {98, 35} THEN <<root[2]>> ELSE <<>>
      two == IF one # <<>> /\ Len(root) > 2 /\ root[3] = root[2] THEN <<root[3]>> ELSE <<>>
  IN IF chord_name = <<>> \/ root = <<>>
     THEN [letter |-> <<NotAStr>>, accidental |-> <<>>]
     ELSE IF \A i \in DOMAIN NOTE_LETTERS : NOTE_LETTERS[i] # letter
     THEN [letter |-> <<NotAStr>>, accidental |-> <<>>]
     ELSE [letter |-> letter, accidental |-> one \o two]

\* mapping.get(degree, 0)
degree_offset(degree) ==
  CASE degree = 1 -> 0 [] degree = 2 -> 1 [] degree = 3 -> 2 [] degree = 4 -> 3
    [] degree = 5 -> 4 [] degree = 6 -> 5 [] degree = 7 -> 6 [] degree = 9 -> 1
    [] degree = 11 -> 3 [] degree = 13 -> 5 [] OTHER -> 0

\* _degree_for_interval; the tokens are the str literals of the source
degree_for_interval(interval, name) ==
  LET has(token) == Contains(name, token)
      Tok_sus2 == <<115, 117, 115, 50>> \* "sus2"
      Tok_sus4 == <<115, 117, 115, 52>> \* "sus4"
      Tok_addb2 == <<97, 100, 100, 98, 50>> \* "addb2"
      Tok_sharp9 == <<35, 57>>          \* "#9"
      Tok_b9 == <<98, 57>>              \* "b9"
      Tok_add2 == <<97, 100, 100, 50>>  \* "add2"
      Tok_9 == <<57>>                   \* "9"
      Tok_11 == <<49, 49>>              \* "11"
      Tok_13 == <<49, 51>>              \* "13"
      Tok_add4 == <<97, 100, 100, 52>>  \* "add4"
      Tok_sharp11 == <<35, 49, 49>>     \* "#11"
      Tok_b5 == <<98, 53>>              \* "b5"
      Tok_paren_b5 == <<40, 98, 53, 41>> \* "(b5)"
      Tok_dim == <<172, 8747>>          \* "U+00ACU+222B"
      Tok_half_dim == <<8730, 8719>>    \* "U+221AU+220F"
      Tok_b13 == <<98, 49, 51>>         \* "b13"
      Tok_plus == <<43>>                \* "+"
      Tok_sharp5 == <<35, 53>>          \* "#5"
      Tok_dim7 == <<172, 8747, 55>>     \* "U+00ACU+222B7"
      Tok_7 == <<55>>                   \* "7"
      Tok_6 == <<54>>                   \* "6"
      is_sus2 == has(Tok_sus2)
      is_sus4 == has(Tok_sus4)
  IN IF interval = 0 THEN 1
     ELSE IF interval \in {1, 2, 3}
     THEN IF has(Tok_addb2) /\ interval = 1 THEN 2
          ELSE IF has(Tok_sharp9) /\ interval = 3 THEN 9
          ELSE IF has(Tok_b9) /\ interval = 1 THEN 9
          ELSE IF interval = 2 /\ (has(Tok_add2) \/ is_sus2) THEN 2
          ELSE IF interval \in {1, 2} /\ (has(Tok_9) \/ has(Tok_11) \/ has(Tok_13)) THEN 9
          ELSE 3
     ELSE IF interval = 4 THEN 3
     ELSE IF interval \in {5, 6}
     THEN IF is_sus4 /\ interval = 5 THEN 4
          ELSE IF has(Tok_add4) /\ interval = 5 THEN 4
          ELSE IF has(Tok_sharp11) /\ interval = 6 THEN 11
          ELSE IF has(Tok_11) THEN 11
          ELSE IF (has(Tok_b5) \/ has(Tok_paren_b5) \/ has(Tok_dim) \/ has(Tok_half_dim))
                  /\ interval = 6 THEN 5
          ELSE IF interval = 5 /\ ~is_sus4 THEN 11
          ELSE IF is_sus4 THEN 4 ELSE 5
     ELSE IF interval = 7 THEN 5
     ELSE IF interval = 8
     THEN IF has(Tok_b13) THEN 13
          ELSE IF has(Tok_plus) \/ has(Tok_sharp5) THEN 5
          ELSE IF has(Tok_13) THEN 13 ELSE 5
     ELSE IF interval = 9
     THEN IF has(Tok_dim7) \/ (has(Tok_dim) /\ has(Tok_7)) THEN 7
          ELSE IF has(Tok_13) \/ has(Tok_b13) THEN 13
          ELSE 6
     ELSE IF interval \in {10, 11} THEN 7
     ELSE 1

\* the accidental written for an offset between -2 and 2
AccidentalText(diff) ==
  CASE diff = -2 -> <<98, 98>> [] diff = -1 -> <<98>> [] diff = 0 -> <<>>
    [] diff = 1 -> <<35>> [] diff = 2 -> <<35, 35>>

\* a spelling that takes the letter of the root for every interval
spell_note_on_root_letter(root_letter, root_pc, chord_name, interval) ==
  LET natural_pc == NOTE_LETTER_TO_PC(root_letter)
      note_pc == (root_pc + interval) % 12
      d == (note_pc - natural_pc + 12) % 12
      diff == IF d > 6 THEN d - 12 ELSE d
  IN IF diff \notin {-2, -1, 0, 1, 2} THEN NOTE_NAMES[note_pc + 1]
     ELSE root_letter \o AccidentalText(diff)

spell_note_for_interval(root_letter, root_pc, chord_name, interval) ==
  LET root_index == NOTE_LETTER_TO_INDEX(root_letter)
      degree == degree_for_interval(interval, chord_name)
      letter_index == (root_index + degree_offset(degree)) % 7
      letter == NOTE_LETTERS[letter_index + 1]
      natural_pc == NOTE_LETTER_TO_PC(letter)
      note_pc == (root_pc + interval) % 12
      d == (note_pc - natural_pc + 12) % 12
      diff == IF d > 6 THEN d - 12 ELSE d
  IN IF diff \notin {-2, -1, 0, 1, 2} THEN NOTE_NAMES[note_pc + 1]
     ELSE letter \o AccidentalText(diff)

\* the highest MIDI note given to spelled_octave
MaxMidiNote == 127

\* _accidental_offset: {"bb": -2, "b": -1, "": 0, "#": 1, "##": 2}.get(accidental, 0)
accidental_offset(accidental) ==
  CASE accidental = <<98, 98>> -> -2 [] accidental = <<98>> -> -1 [] accidental = <<>> -> 0
    [] accidental = <<35>> -> 1 [] accidental = <<35, 35>> -> 2 [] OTHER -> 0

note_octave(note) == (note \div 12) - 1

midi_of_C(octave) == (octave + 1) * 12

\* the octave of the note itself, whatever its spelling
spelled_octave_of_note(note, letter, accidental) == note_octave(note)

spelled_octave(note, letter, accidental) ==
  LET base_octave == note_octave(note)
      base_pc == (IF \E i \in DOMAIN NOTE_LETTERS : NOTE_LETTERS[i] = letter
                  THEN NOTE_LETTER_TO_PC(letter) ELSE 0) + accidental_offset(accidental)
      hits(octave) == midi_of_C(octave) + base_pc = note
  IN IF hits(base_octave - 1) THEN base_octave - 1
     ELSE IF hits(base_octave) THEN base_octave
     ELSE IF hits(base_octave + 1) THEN base_octave + 1
     ELSE base_octave

(***************************************************************************)
(* spell_note_for_interval and spelled_octave on their own.                *)
(***************************************************************************)
\* chord names given to the spelling
SpellNames ==
  { <<>>,                                   \* ""
    <<109>>,                                \* "m"
    <<57>>,                                 \* "9"
    <<115, 117, 115, 50>>,                  \* "sus2"
    <<115, 117, 115, 52>>,                  \* "sus4"
    <<97, 100, 100, 50>>,                   \* "add2"
    <<97, 100, 100, 98, 50>>,               \* "addb2"
    <<55, 40, 35, 57, 41>>,                 \* "7(#9)"
    <<55, 40, 98, 57, 41>>,                 \* "7(b9)"
    <<109, 49, 49>>,                        \* "m11"
    <<49, 51>>,                             \* "13"
    <<55, 40, 35, 49, 49, 41>>,             \* "7(#11)"
    <<97, 100, 100, 52>>,                   \* "add4"
    <<55, 40, 98, 53, 41>>,                 \* "7(b5)"
    <<186, 55>>,                            \* "U+00BA7"
    <<172, 8747, 55>>,                      \* "U+00ACU+222B7"
    <<248>>,                                \* "U+00F8"
    <<43>>,                                 \* "+"
    <<55, 40, 98, 49, 51, 41>>,             \* "7(b13)"
    <<54>>,                                 \* "6"
    <<49, 49, 40, 98, 53, 41, 110, 111, 51>>, \* "11(b5)no3"
    <<49, 51, 40, 98, 53, 41>>,             \* "13(b5)"
    <<186, 55, 40, 49, 49, 41>>,            \* "U+00BA7(11)"
    <<248, 49, 49>> }                       \* "U+00F811"

\* the names of the built-in dictionary, spelled on the roots of DETECT_NOTE_NAMES
DictionaryNames == {BASE_CHORD_PATTERNS[i].nombre : i \in DOMAIN BASE_CHORD_PATTERNS}

InitSpell ==
  /\ CHORD_PATTERNS = InitialReg.CHORD_PATTERNS
  /\ custom_chords = InitialReg.custom_chords
  /\ additional_base_chords = InitialReg.additional_base_chords
  /\ additional_base_signatures = InitialReg.additional_base_signatures
  /\ \/ \E i \in DOMAIN NOTE_LETTERS, root_pc \in 0..11, chord_name \in SpellNames,
           interval \in 0..11 :
          last = [op |-> "call", root_letter |-> NOTE_LETTERS[i], root_pc |-> root_pc,
                  chord_name |-> chord_name, interval |-> interval]
     \/ \E root_pc \in 0..11, chord_name \in DictionaryNames, interval \in 0..11 :
          last = [op |-> "call",
                  root_letter |-> parse_root_spelling(DETECT_NOTE_NAMES[root_pc + 1]).letter,
                  root_pc |-> root_pc, chord_name |-> chord_name, interval |-> interval]
     \/ \E note \in 0..MaxMidiNote, i \in DOMAIN NOTE_LETTERS, a \in -2..2 :
          last = [op |-> "call_octave", note |-> note, letter |-> NOTE_LETTERS[i],
                  accidental |-> AccidentalText(a)]
  /\ notas = <<>>
  /\ matches = <<>>
  /\ info = NotCalled
  /\ QuietKeyboard
  /\ IdleLearner

SpellNoteForInterval ==
  /\ last.op = "call"
  /\ last' = [op |-> "spell_note_for_interval", root_letter |-> last.root_letter,
              root_pc |-> last.root_pc, chord_name |-> last.chord_name,
              interval |-> last.interval,
              ret |-> spell_note_for_interval(last.root_letter, last.root_pc,
                                              last.chord_name, last.interval)]
  /\ UNCHANGED <<regVars, matchVars, midiVars, learnVars>>

SpelledOctave ==
  /\ last.op = "call_octave"
  /\ last' = [op |-> "spelled_octave", note |-> last.note, letter |-> last.letter,
              accidental |-> last.accidental,
              ret |-> spelled_octave(last.note, last.letter, last.accidental)]
  /\ UNCHANGED <<regVars, matchVars, midiVars, learnVars>>

NextSpell == SpellNoteForInterval \/ SpelledOctave

SpecSpell == InitSpell /\ [][NextSpell]_vars

(***************************************************************************)
(* Export of the registry, and the import of the exported file into an     *)
(* empty registry.  The file is held as the JSON value json.dumps writes   *)
(* and json.loads reads back.                                              *)
(***************************************************************************)
\* the JSON value of a pattern name; a name that is not a str was read from a
\* JSON value that is not a string and is written back as one
JName(name) == IF IsStr(name) THEN JStr(name) ELSE JInt(NotAStr)

\* an export that writes no optional intervals
export_chord_dictionary_no_opcionales(patterns) ==
  FileJson(JDictionary(JList(
    [i \in DOMAIN patterns |->
       [t |-> "dict",
        nombre |-> JName(patterns[i].nombre),
        root_pc |-> JInt(0),
        root_name |-> JStr(DETECT_NOTE_NAMES[1]),
        obligatorias |-> JInts(patterns[i].obligatorias),
        opcionales |-> JInts(<<>>),
        fuente |-> JStr(IF patterns[i].is_custom THEN "aprendido" ELSE "base")]])))

\* the file written by export_chord_dictionary: one entry per pattern
export_chord_dictionary(patterns) ==
  FileJson(JDictionary(JList(
    [i \in DOMAIN patterns |->
       [t |-> "dict",
        nombre |-> JName(patterns[i].nombre),
        root_pc |-> JInt(0),
        root_name |-> JStr(DETECT_NOTE_NAMES[1]),
        obligatorias |-> JInts(patterns[i].obligatorias),
        opcionales |-> JInts(patterns[i].opcionales),
        fuente |-> JStr(IF patterns[i].is_custom THEN "aprendido" ELSE "base")]])))

\* a registry with no pattern at all
EmptyReg == [CHORD_PATTERNS |-> <<>>,
             custom_chords |-> <<>>,
             additional_base_chords |-> <<>>,
             additional_base_signatures |-> {}]

\* registries reached by one import from the file dialog, learned ones and a
\* promoted one
ExportRegistries ==
  {import_dictionary_from_path(reg, FileJson(JDictionary(JList(es))), TRUE, TRUE).reg :
     reg \in {InitialReg, LearnedCluster}, es \in SeqsUpTo(FileEntries, MaxImport)}
  \cup {LearnedTriad, LearnedDim7, LearnedBoth, ImportedCluster,
        move_custom_to_base(LearnedCluster, 0, TRUE).reg}

InitExport ==
  /\ \E reg \in ExportRegistries :
       /\ CHORD_PATTERNS = reg.CHORD_PATTERNS
       /\ custom_chords = reg.custom_chords
       /\ additional_base_chords = reg.additional_base_chords
       /\ additional_base_signatures = reg.additional_base_signatures
  /\ last = [op |-> "init"]
  /\ notas = <<>>
  /\ matches = <<>>
  /\ info = NotCalled
  /\ QuietKeyboard
  /\ IdleLearner

\* menu entry "export dictionary"; chosen is FALSE when the file dialog is
\* cancelled
ExportChordDictionary(chosen) ==
  /\ last.op = "init"
  /\ last' = [op |-> "export_chord_dictionary",
              file |-> IF chosen THEN export_chord_dictionary(CHORD_PATTERNS)
                       ELSE FileMissing]
  /\ UNCHANGED <<regVars, matchVars, midiVars, learnVars>>

\* the exported file is imported into an empty registry; last keeps the
\* patterns that were exported
ImportExported(record_extra, allow_overwrite) ==
  /\ last.op = "export_chord_dictionary"
  /\ last.file # FileMissing
  /\ \E r \in {import_dictionary_from_path(EmptyReg, last.file, record_extra,
                                           allow_overwrite)} :
       /\ SetReg(r.reg)
       /\ last' = [op |-> "import_dictionary_from_path", exported |-> CHORD_PATTERNS,
                   added |-> r.added]
  /\ UNCHANGED <<matchVars, midiVars, learnVars>>

NextExport ==
  \/ \E chosen \in BOOLEAN : ExportChordDictionary(chosen)
  \/ \E record_extra, allow_overwrite \in BOOLEAN :
       ImportExported(record_extra, allow_overwrite)

SpecExport == InitExport /\ [][NextExport]_vars


(***************************************************************************)
(* _normalize_intervals on its own.                                        *)
(***************************************************************************)
\* the longest list given to _normalize_intervals
MaxIntervals == 3

\* the integers the lists are made of: negative, within 0..11, 12 and above
IntervalValues == {-13, -12, -1, 0, 1, 7, 11, 12, 13, 23}

InitNormalize ==
  /\ CHORD_PATTERNS = InitialReg.CHORD_PATTERNS
  /\ custom_chords = InitialReg.custom_chords
  /\ additional_base_chords = InitialReg.additional_base_chords
  /\ additional_base_signatures = InitialReg.additional_base_signatures
  /\ \E intervals \in SeqsUpTo(IntervalValues, MaxIntervals) :
       last = [op |-> "call", intervals |-> intervals]
  /\ notas = <<>>
  /\ matches = <<>>
  /\ info = NotCalled
  /\ QuietKeyboard
  /\ IdleLearner

\* the function applied to a list, and again to its own result
NormalizeIntervals ==
  /\ last.op = "call"
  /\ \E ret \in {normalize_intervals(last.intervals)} :
       last' = [op |-> "normalize_intervals", intervals |-> last.intervals, ret |-> ret,
                again |-> normalize_intervals(ret)]
  /\ UNCHANGED <<regVars, matchVars, midiVars, learnVars>>

NextNormalize == NormalizeIntervals

SpecNormalize == InitNormalize /\ [][NextNormalize]_vars

(***************************************************************************)
(* The MIDI poll on its own: every kind of message the loop tells apart,   *)
(* the learner staying idle.                                               *)
(***************************************************************************)
\* a note-on with velocity 0, which the loop takes as a release
NoteOnSilent(n) == [type |-> "note_on", note |-> n, velocity |-> 0]

\* the messages of a keyboard with two keys and a pedal, the pedal at both
\* ends of its range and at both sides of the threshold
KeyboardMessages ==
  Messages \cup {NoteOnSilent(n) : n \in LearnNotes} \cup {Sustain(64), Sustain(63)}

KeyboardPending == SeqsUpTo(KeyboardMessages, MaxMsgs)

\* the application after startup, with a dictionary of built-in patterns only
\* or one more pattern learned or imported
InitKeyboard ==
  /\ \E reg \in AddBaseRegistries :
       /\ CHORD_PATTERNS = reg.CHORD_PATTERNS
       /\ custom_chords = reg.custom_chords
       /\ additional_base_chords = reg.additional_base_chords
       /\ additional_base_signatures = reg.additional_base_signatures
  /\ last = [op |-> "load_preferences", asked |-> FALSE, confirmed |-> {},
             captured |-> {}, outcome |-> "", note_ons |-> {}, prev |-> ""]
  /\ notas = <<>>
  /\ matches = <<>>
  /\ info = NotCalled
  /\ QuietKeyboard
  /\ IdleLearner

NextKeyboard == \E msgs \in KeyboardPending : PollMidi(msgs)

SpecKeyboard == InitKeyboard /\ [][NextKeyboard]_vars
(***************************************************************************)
(* Properties of the matcher, checked under SpecMatcher.                   *)
(***************************************************************************)
\* the call has returned a value
Returned == info # NotCalled /\ info # Raised

\* it returned a chord
Identified == Returned /\ info # EmptyResult

\* the pitch classes that sound in notas
SoundingPcs == {n % 12 : n \in SeqToSet(notas)}

\* the pitch class of the lowest note
BassPc == SetMin(SeqToSet(notas)) % 12

\* interval_set of the claim, for a root
IntervalSet(root) == {(pc - root + 12) % 12 : pc \in SoundingPcs} \cup {0}

\* the exact-cover test for a set of obligatory and a set of optional intervals
ExactCover(obligatory, optional, root) ==
  /\ obligatory \subseteq IntervalSet(root)
  /\ IntervalSet(root) \subseteq obligatory \cup optional

\* C1: every candidate the matcher produced, and the principal match it
\* returned, covers the sounding notes exactly (obligatory within interval_set
\* within obligatory + optional) and has a sounding pitch class as its root.
C1_ExactCover ==
  /\ \A k \in DOMAIN matches :
       /\ ExactCover(SeqToSet(matches[k].obligatorias), SeqToSet(matches[k].opcionales),
                     matches[k].root)
       /\ matches[k].root \in SoundingPcs
  /\ Identified =>
       /\ ExactCover(SeqToSet(info.principal_match.obligatorias),
                     SeqToSet(info.principal_match.opcionales),
                     info.principal_match.root)
       /\ info.principal_match.root \in SoundingPcs

\* C1 witness: a chord was identified from candidates on several roots, one
\* of them with an optional interval that does not sound
C1_Witness ==
  /\ Identified
  /\ \E j, k \in DOMAIN matches : matches[j].root # matches[k].root
  /\ \E k \in DOMAIN matches :
       \E i \in DOMAIN matches[k].opcionales :
         matches[k].opcionales[i] \notin IntervalSet(matches[k].root)

\* the ranking of the claim C2: a comes strictly before b
RankedBefore(a, b) ==
  LET customA == IF a.is_custom THEN 0 ELSE 1
      customB == IF b.is_custom THEN 0 ELSE 1
      bassA == IF a.esGraveFundamental THEN 0 ELSE 1
      bassB == IF b.esGraveFundamental THEN 0 ELSE 1
  IN \/ customA < customB
     \/ customA = customB /\ bassA < bassB
     \/ customA = customB /\ bassA = bassB /\ a.numOblig > b.numOblig
     \/ customA = customB /\ bassA = bassB /\ a.numOblig = b.numOblig
        /\ a.opcionalesPresentes > b.opcionalesPresentes
     \/ customA = customB /\ bassA = bassB /\ a.numOblig = b.numOblig
        /\ a.opcionalesPresentes = b.opcionalesPresentes
        /\ StrLess(a.nombre, b.nombre)

\* the candidates whose root is the bass
BassRooted == {k \in DOMAIN matches : matches[k].root = BassPc}

\* the candidates the principal is chosen among
PrincipalPool == IF BassRooted # {} THEN BassRooted ELSE DOMAIN matches

\* C2: the principal match is one of the bass-rooted candidates when there is
\* one, of all candidates otherwise, and no candidate of that pool comes
\* before it in the ranking (custom first, bass-rooted first, more obligatory
\* intervals, more optional intervals present, name); so it is bass-rooted
\* whenever some candidate is.
C2_Principal ==
  Identified =>
    /\ info.principal_match.idx \in PrincipalPool
    /\ matches[info.principal_match.idx] = info.principal_match
    /\ \A k \in PrincipalPool : ~RankedBefore(matches[k], info.principal_match)
    /\ BassRooted # {} => info.principal_match.root = BassPc

\* C2 witness: a learned pattern and a built-in one with at least as many
\* obligatory intervals both match on the bass, other candidates are not
\* bass-rooted, and the learned one is the principal
C2_Witness ==
  /\ Identified
  /\ info.principal_match.is_custom
  /\ \E k \in BassRooted :
       /\ ~matches[k].is_custom
       /\ matches[k].numOblig >= info.principal_match.numOblig
  /\ \E k \in DOMAIN matches : k \notin BassRooted

\* some root and pattern of the registry pass the match test
SomePairMatches ==
  \E root \in SoundingPcs :
    \E i \in DOMAIN CHORD_PATTERNS :
      ExactCover(SeqToSet(CHORD_PATTERNS[i].obligatorias),
                 SeqToSet(CHORD_PATTERNS[i].opcionales), root)

\* C3: every call of the matcher returns a value, never an exception, and the
\* value is the empty result exactly when fewer than 2 distinct notes were
\* given or no root and pattern pass the match test.
C3_TotalNeverRaises ==
  info # NotCalled =>
    /\ info # Raised
    /\ info = EmptyResult <=>
         (Cardinality(SeqToSet(notas)) < 2 \/ ~SomePairMatches)

\* the display string of the claim C4 for a candidate
Display(m) ==
  LET slash == /\ m.root # BassPc
               /\ \A ivl \in SeqToSet(m.obligatorias) \cup SeqToSet(m.opcionales) :
                    ivl \notin {2, 5, 9}
               /\ (BassPc - m.root + 12) % 12 \in {3, 4, 7, 10}
  IN IF slash
     THEN DETECT_NOTE_NAMES[m.root + 1] \o m.nombre \o <<47>> \o DETECT_NOTE_NAMES[BassPc + 1]
     ELSE DETECT_NOTE_NAMES[m.root + 1] \o m.nombre

\* "C/E"
NameCOverE == <<67, 47, 69>>

\* C4: the principal is the display string of the principal match and every
\* alternative is the display string of a candidate, where the display string
\* is the name of the root followed by the pattern name, with "/" and the
\* name of the bass appended exactly when the candidate is not bass-rooted,
\* none of its intervals is 2, 5 or 9 and the bass is 3, 4, 7 or 10 above the
\* root; pitch classes {0, 4, 7} over the bass 4, with the built-in
\* dictionary, give "C/E".
C4_SlashNotation ==
  /\ Identified =>
       /\ info.principal = Display(info.principal_match)
       /\ \A i \in DOMAIN info.alternativos :
            \E k \in DOMAIN matches : info.alternativos[i] = Display(matches[k])
  /\ (Returned /\ SoundingPcs = {0, 4, 7} /\ BassPc = 4 /\ CHORD_PATTERNS = InitialPatterns)
       => info.principal = NameCOverE

\* C4 witness: the example of the claim
C4_Witness ==
  /\ Returned /\ SoundingPcs = {0, 4, 7} /\ BassPc = 4
  /\ CHORD_PATTERNS = InitialPatterns
  /\ info.principal = NameCOverE
  /\ info.principal_match.root = 0

\* candidate j stands before candidate k in the ranking order; candidates of
\* equal rank stand in the order the matcher found them
StandsBefore(j, k) ==
  \/ RankedBefore(matches[j], matches[k])
  \/ ~RankedBefore(matches[k], matches[j]) /\ j < k

\* the candidates of the set S in ranking order
InRankingOrder(S) ==
  [p \in 1..Cardinality(S) |->
     CHOOSE k \in S : Cardinality({j \in S : StandsBefore(j, k)}) = p - 1]

\* the candidates left once the principal is taken: the bass-rooted ones, then
\* the others
Remaining ==
  InRankingOrder(BassRooted \ {info.principal_match.idx})
  \o InRankingOrder((DOMAIN matches \ BassRooted) \ {info.principal_match.idx})

RemainingNames == [p \in DOMAIN Remaining |-> Display(matches[Remaining[p]])]

\* the positions of RemainingNames that hold a new display string
FirstOccurrences ==
  SelectSeq([p \in DOMAIN RemainingNames |-> p],
            LAMBDA p : /\ RemainingNames[p] # info.principal
                       /\ \A q \in 1..(p - 1) : RemainingNames[q] # RemainingNames[p])

MaxAlternatives == 4

\* C5: the alternatives are at most 4, hold no display string twice and never
\* the principal, and are the first display strings of the remaining
\* candidates, the bass-rooted ones in ranking order before the others in
\* ranking order.
C5_Alternatives ==
  Identified =>
    /\ Len(info.alternativos) <= MaxAlternatives
    /\ \A i, j \in DOMAIN info.alternativos :
         i # j => info.alternativos[i] # info.alternativos[j]
    /\ \A i \in DOMAIN info.alternativos : info.alternativos[i] # info.principal
    /\ Len(info.alternativos) =
         (IF Len(FirstOccurrences) < MaxAlternatives THEN Len(FirstOccurrences)
          ELSE MaxAlternatives)
    /\ \A i \in DOMAIN info.alternativos :
         info.alternativos[i] = RemainingNames[FirstOccurrences[i]]

\* C5 witness: more than 4 display strings remain, among them bass-rooted
\* and other candidates, and 4 alternatives are listed
C5_Witness ==
  /\ Identified
  /\ Len(FirstOccurrences) > MaxAlternatives
  /\ Len(info.alternativos) = MaxAlternatives
  /\ Cardinality(BassRooted) >= 2
  /\ Cardinality(DOMAIN matches \ BassRooted) >= 2

(***************************************************************************)
(* Base insertion, checked under SpecAddBase.                              *)
(***************************************************************************)
\* the signature of the arguments of the pending call
CallSignature == signature_from_lists(last.obligatorias, last.opcionales)

\* the non-custom entries of the registry with the signature of the call
CallConflicts ==
  {i \in DOMAIN CHORD_PATTERNS :
     /\ ~CHORD_PATTERNS[i].is_custom
     /\ pattern_signature(CHORD_PATTERNS[i]) = CallSignature}

\* C6: a call of _add_base_chord without allow_overwrite leaves the registry
\* unchanged and returns the existing entry when a non-custom entry has the
\* signature of the arguments; otherwise it appends exactly one new
\* non-custom pattern with the normalized intervals and returns it, whether
\* or not a learned pattern has that signature.
C6_BaseInsertion ==
  [][(last.op = "call" /\ ~last.allow_overwrite) =>
       IF CallConflicts # {}
       THEN /\ UNCHANGED regVars
            /\ \E i \in CallConflicts : last'.ret = CHORD_PATTERNS[i].id
       ELSE /\ CHORD_PATTERNS' =
                 Append(CHORD_PATTERNS,
                        [id |-> last'.ret, nombre |-> last.name,
                         obligatorias |-> CallSignature[1],
                         opcionales |-> CallSignature[2],
                         is_custom |-> FALSE])
            /\ last'.ret \notin {CHORD_PATTERNS[i].id : i \in DOMAIN CHORD_PATTERNS}
            /\ custom_chords' = custom_chords]_vars

\* C6 witness: the call without allow_overwrite has appended a non-custom
\* pattern although a learned pattern has the same signature
C6_Witness ==
  /\ last.op = "add_base_chord" /\ ~last.allow_overwrite
  /\ Len(CHORD_PATTERNS) = NumBase + 2
  /\ LET new == CHORD_PATTERNS[Len(CHORD_PATTERNS)]
     IN /\ ~new.is_custom /\ new.id = last.ret
        /\ \E i \in DOMAIN CHORD_PATTERNS :
             /\ CHORD_PATTERNS[i].is_custom
             /\ pattern_signature(CHORD_PATTERNS[i]) = pattern_signature(new)

(***************************************************************************)
(* Properties of the registry, checked under Spec.                         *)
(***************************************************************************)
\* the objects of the registry before the step
IdsBefore == {CHORD_PATTERNS[i].id : i \in DOMAIN CHORD_PATTERNS}

\* the object id before and after the step
ObjectBefore(id) == CHORD_PATTERNS[CHOOSE i \in DOMAIN CHORD_PATTERNS : CHORD_PATTERNS[i].id = id]
ObjectAfter(id) == CHORD_PATTERNS'[CHOOSE i \in DOMAIN CHORD_PATTERNS' : CHORD_PATTERNS'[i].id = id]

\* each object of a registry with its name and intervals
Contents(patterns) ==
  {<<patterns[i].id, patterns[i].nombre, patterns[i].obligatorias,
     patterns[i].opcionales>> : i \in DOMAIN patterns}

\* the entries that are in the registry before and after the step and whose
\* name or intervals the step has changed
Overwritten ==
  {c[1] : c \in Contents(CHORD_PATTERNS') \ Contents(CHORD_PATTERNS)} \cap IdsBefore

\* the steps of the claim C7: startup dictionaries, dictionary import,
\* preference replay, learn, promotion
AddingOps ==
  {"load_external_chord_dictionary", "load_chord_dictionary_from_dialog",
   "load_preferences", "crashed", "complete_learning_with_notes",
   "move_custom_to_base"}

\* the steps that overwrite the non-custom entry of the same signature
\* without a question: import from the file dialog, replay of base_chords
OverwritingOps == {"load_chord_dictionary_from_dialog", "load_preferences", "crashed"}

\* C7 as stated: in every add, import, replay, learn or promotion step, an
\* entry's name or intervals are overwritten only if the user was asked in
\* that step and answered yes.
C7_NeverSilent ==
  [][last'.op \in AddingOps => Overwritten \subseteq last'.confirmed]_vars

\* C7 amended: an entry's name or intervals are overwritten only if the user
\* was asked in that step and answered yes, or if the step is an import from
\* the file dialog or the preference replay and the entry is a non-custom
\* one that keeps its signature; the startup dictionaries, learning and
\* promotion overwrite nothing without a yes, and a step whose only question
\* was declined leaves the registry unchanged.
C7_OverwriteOnlyAllowed ==
  [][/\ last'.op \in AddingOps \ OverwritingOps => Overwritten \subseteq last'.confirmed
     /\ last'.op \in OverwritingOps =>
          \A id \in Overwritten \ last'.confirmed :
            /\ ~ObjectBefore(id).is_custom /\ ~ObjectAfter(id).is_custom
            /\ pattern_signature(ObjectAfter(id)) = pattern_signature(ObjectBefore(id))
     /\ (last'.op \in {"complete_learning_with_notes", "move_custom_to_base"}
         /\ last'.asked /\ last'.confirmed = {}) => UNCHANGED regVars]_vars

\* C7 witness: a promotion has overwritten a non-custom entry after the user
\* answered yes
C7_Witness ==
  /\ last.op = "move_custom_to_base"
  /\ last.asked
  /\ \E i \in DOMAIN CHORD_PATTERNS : CHORD_PATTERNS[i].id \in last.confirmed

\* the signature of the claim C8: sorted obligatory, sorted optional
SortedSignature(p) == <<SortedList(p.obligatorias), SortedList(p.opcionales)>>

\* C8: no two non-custom patterns of the registry have the same signature,
\* and no two learned patterns have the same set of obligatory intervals.
C8_Deduplicated ==
  LET base == {i \in DOMAIN CHORD_PATTERNS : ~CHORD_PATTERNS[i].is_custom}
      learned == {i \in DOMAIN CHORD_PATTERNS : CHORD_PATTERNS[i].is_custom}
  IN \* as many signatures as non-custom patterns
     /\ Cardinality({SortedSignature(CHORD_PATTERNS[i]) : i \in base}) = Cardinality(base)
     \* as many obligatory sets as learned patterns
     /\ Cardinality({SeqToSet(CHORD_PATTERNS[i].obligatorias) : i \in learned})
          = Cardinality(learned)

\* C8 witness: the registry holds an added non-custom pattern and a learned
\* one, and a second learning of the same intervals has replaced the learned
\* one instead of adding to it
C8_Witness ==
  /\ last.op = "complete_learning_with_notes" /\ last.asked /\ last.confirmed # {}
  /\ Len(custom_chords) = 1
  /\ Len(CHORD_PATTERNS) = NumBase + 2

\* C9: every pattern of the registry has its intervals in 0..11, has 0 among
\* its obligatory intervals, and has no optional interval that is also
\* obligatory.
C9_WellFormed ==
  \A i \in DOMAIN CHORD_PATTERNS :
    LET obligatory == SeqToSet(CHORD_PATTERNS[i].obligatorias)
        optional == SeqToSet(CHORD_PATTERNS[i].opcionales)
    IN /\ obligatory \cup optional \subseteq 0..11
       /\ 0 \in obligatory
       /\ obligatory \cap optional = {}

\* the entries the step removes from the registry
Removed == IdsBefore \ {CHORD_PATTERNS'[i].id : i \in DOMAIN CHORD_PATTERNS'}

\* the signature of every built-in pattern is that of a non-custom entry
BuiltInsPresent ==
  DEFAULT_BASE_SIGNATURES \subseteq
    {SortedSignature(CHORD_PATTERNS[i]) :
       i \in {j \in DOMAIN CHORD_PATTERNS : ~CHORD_PATTERNS[j].is_custom}}

\* C10: a step removes a pattern from the registry only if it is the
\* deletion of a learned chord or a promotion whose overwrite the user
\* confirmed, and then the pattern removed is a learned one; in every state
\* the signature of every built-in pattern is that of a non-custom entry.
C10_Lifecycle ==
  /\ []BuiltInsPresent
  /\ [][/\ Removed # {} =>
             /\ \/ last'.op = "delete_custom_chord"
                \/ last'.op = "move_custom_to_base" /\ last'.asked /\ last'.confirmed # {}
             /\ \A id \in Removed : ObjectBefore(id).is_custom
        /\ Len(CHORD_PATTERNS') < Len(CHORD_PATTERNS) => Removed # {}]_vars

\* C10 witness: a learned chord has been deleted from a registry that had
\* grown by an import; the imported pattern and the built-in ones remain
C10_Witness ==
  /\ last.op = "delete_custom_chord"
  /\ custom_chords = <<>>
  /\ Len(CHORD_PATTERNS) = NumBase + 1

(***************************************************************************)
(* The learner.                                                            *)
(***************************************************************************)
Idle == ~learning_chord /\ ~learning_waiting_first_note
WaitingFirstNote == learning_chord /\ learning_waiting_first_note
CapturingWindow == learning_chord /\ ~learning_waiting_first_note /\ capture_timer

\* the notes held: pressed or sustained
Held == active_notes \cup sustained_notes

\* the step is a press of the "Midi learn" button
StartStep == last'.op = "start_learning_mode"

\* the step is a poll that read at least one note-on
NoteOnStep == last'.op = "poll_midi" /\ last'.note_ons # {}

\* the step ran finalize
FinalizeStep ==
  \/ last'.op = "finish_capture_window"
  \/ last'.op = "start_learning_mode" /\ last'.outcome \notin {"waiting", "cancelled"}

\* C11: start() from Idle with a note held finalizes at once with exactly the
\* held set and neither waits for a first note nor starts the countdown; from
\* Idle with no note held it enters WaitingFirstNote; from WaitingFirstNote or
\* CapturingWindow it cancels: capture set discarded, countdown stopped,
\* registry unchanged, learner Idle, no finalize and no second capture.
C11_StartTransitions ==
  [][StartStep =>
       /\ (Idle /\ Held # {}) =>
            /\ FinalizeStep
            /\ last'.captured = Held
            /\ ~WaitingFirstNote' /\ ~capture_timer' /\ ~CapturingWindow'
       /\ (Idle /\ Held = {}) =>
            /\ WaitingFirstNote' /\ ~capture_timer'
            /\ last'.outcome = "waiting"
            /\ UNCHANGED regVars
       /\ (WaitingFirstNote \/ CapturingWindow) =>
            /\ Idle' /\ learning_capture_notes' = {} /\ ~capture_timer'
            /\ last'.outcome = "cancelled"
            /\ UNCHANGED regVars]_vars

\* the button was pressed with two notes held, and they were learned at once
C11_Witness ==
  /\ last.op = "start_learning_mode" /\ last.outcome = "registered"
  /\ Cardinality(last.captured) = 2
  /\ Idle

\* C12: the first note-on received in WaitingFirstNote opens the capture
\* window with the capture set equal to the notes then active; while the
\* window is open the capture set only grows; every note-on read while
\* waiting or capturing is in the capture set; and the countdown hands
\* exactly the capture set to finalize.
C12_CaptureWindow ==
  [][/\ (WaitingFirstNote /\ NoteOnStep) =>
          CapturingWindow' /\ learning_capture_notes' = Held'
     /\ (CapturingWindow /\ CapturingWindow') =>
          learning_capture_notes \subseteq learning_capture_notes'
     /\ ((WaitingFirstNote \/ CapturingWindow) /\ NoteOnStep) =>
          last'.note_ons \subseteq learning_capture_notes'
     /\ last'.op = "finish_capture_window" =>
          last'.captured = learning_capture_notes]_vars

\* the countdown has fired, and a poll has read a note-on since
AfterCountdown == last.op = "finish_capture_window"
                  \/ (last.op = "poll_midi" /\ last.prev = "finish_capture_window")

\* C13 as stated: a note-on after the countdown has fired starts a new
\* WaitingFirstNote cycle.
C13_NewCycle ==
  [][(AfterCountdown /\ NoteOnStep) => WaitingFirstNote']_vars

\* C13 amended: a note-on after the countdown has fired leaves the learner
\* Idle with an empty capture set and a stopped countdown and leaves the
\* registry as the finished capture left it; the learner leaves Idle only
\* by a press of the button.
C13_StaysIdle ==
  [][/\ (AfterCountdown /\ NoteOnStep) =>
          /\ Idle' /\ learning_capture_notes' = {} /\ ~capture_timer'
          /\ UNCHANGED regVars
     /\ (Idle /\ ~Idle') => StartStep]_vars

\* a capture was registered by the countdown, and a note-on was read after it
C13_Witness ==
  /\ last.op = "poll_midi" /\ last.prev = "finish_capture_window"
  /\ last.note_ons # {}
  /\ custom_chords # <<>>
  /\ active_notes # {}

\* C14: finalize with fewer than 2 distinct captured notes reports a
\* validation failure and leaves registry and learned list unchanged; every
\* finalize outcome leaves the learner Idle with the countdown stopped.
C14_FinalizeIdle ==
  [][FinalizeStep =>
       /\ Idle' /\ ~capture_timer' /\ learning_capture_notes' = {}
       /\ last'.outcome \in {"no_notes", "too_few_notes", "name_cancelled",
                             "name_empty", "declined", "registered"}
       /\ Cardinality(last'.captured) < 2 =>
            /\ last'.outcome \in {"no_notes", "too_few_notes"}
            /\ UNCHANGED regVars]_vars

\* the countdown fired on a capture of one note
C14_Witness ==
  /\ last.op = "finish_capture_window" /\ last.outcome = "too_few_notes"
  /\ Cardinality(last.captured) = 1
  /\ Idle

(***************************************************************************)
(* Finalize.                                                               *)
(***************************************************************************)
\* the call can register: at least two notes and a name that is not blank
Registrable ==
  /\ last.op = "call"
  /\ Cardinality(last.captured) >= 2
  /\ last.ok /\ Strip(last.text) # <<>>

\* the normalized set of (note - lowest) mod 12 of the notes handed to the call
NormalizedIntervals ==
  LET lowest == SetMin(last.captured)
  IN {(n - lowest) % 12 : n \in last.captured}

\* the contents the learned pattern must have
IsLearnedPattern(p) ==
  /\ SeqToSet(p.obligatorias) = NormalizedIntervals
  /\ Len(p.obligatorias) = Cardinality(NormalizedIntervals)
  /\ p.opcionales = <<>>
  /\ p.is_custom = TRUE
  /\ p.nombre = Strip(last.text)

\* positions in the learned list of a pattern with the same obligatory set
SameShape ==
  {i \in DOMAIN custom_chords :
     SeqToSet(custom_chords[i].obligatorias) = NormalizedIntervals}

\* list after is list before with only the objects in ids changed
SameExcept(before, after, ids) ==
  /\ Len(after) = Len(before)
  /\ \A i \in DOMAIN before :
       /\ after[i].id = before[i].id
       /\ before[i].id \notin ids => after[i] = before[i]

\* C15: a successful finalize takes the lowest captured note as root and
\* builds a pattern with obligatory = the normalized set of (note - lowest)
\* mod 12, optional empty, custom; a learned pattern with the same obligatory
\* set is replaced in place when the caller confirms (no list changes length)
\* and nothing changes when the caller declines; with no such pattern exactly
\* one pattern is appended to the registry and to the learned list.
C15_Finalize ==
  [][(Registrable /\ last'.op = "complete_learning_with_notes") =>
       /\ 0 \in NormalizedIntervals
       /\ (SameShape = {}) =>
            /\ \E p \in {CHORD_PATTERNS'[Len(CHORD_PATTERNS')]} :
                 /\ IsLearnedPattern(p)
                 /\ p.id \notin {CHORD_PATTERNS[i].id : i \in DOMAIN CHORD_PATTERNS}
                 /\ CHORD_PATTERNS' = Append(CHORD_PATTERNS, p)
                 /\ custom_chords' = Append(custom_chords, p)
            /\ last'.outcome = "registered" /\ ~last'.asked
       /\ (SameShape # {} /\ last.answer) =>
            /\ last'.asked /\ last'.outcome = "registered"
            /\ \E i \in SameShape :
                 /\ IsLearnedPattern(custom_chords'[i])
                 /\ SameExcept(custom_chords, custom_chords', {custom_chords[i].id})
                 /\ SameExcept(CHORD_PATTERNS, CHORD_PATTERNS', {custom_chords[i].id})
                 /\ \A k \in DOMAIN CHORD_PATTERNS :
                      CHORD_PATTERNS[k].id = custom_chords[i].id =>
                        CHORD_PATTERNS'[k] = custom_chords'[i]
       /\ (SameShape # {} /\ ~last.answer) =>
            /\ last'.asked /\ last'.outcome = "declined"
            /\ UNCHANGED regVars]_vars

\* two octaves of one class were captured over a learned pattern of the same
\* shape, which was replaced in place
C15_Witness ==
  /\ last.op = "complete_learning_with_notes"
  /\ last.outcome = "registered" /\ last.asked /\ last.confirmed # {}
  /\ \E n \in last.captured : n + 12 \in last.captured
  /\ Len(custom_chords) = 2

(***************************************************************************)
(* Promotion.                                                              *)
(***************************************************************************)
\* the step is a press of the "move to base" button of row last'.index
MoveStep == last'.op = "move_custom_to_base"

\* the learned pattern of that row, before the step
Promoted == custom_chords[last'.index + 1]

\* positions of the non-custom patterns of a registry with the signature of p
NonCustomLike(patterns, p) ==
  {k \in DOMAIN patterns :
     ~patterns[k].is_custom /\ SortedSignature(patterns[k]) = SortedSignature(p)}

\* positions of the entries of the additional-base list with the signature of p
RecordedLike(chords, p) ==
  {k \in DOMAIN chords : SortedSignature(chords[k]) = SortedSignature(p)}

\* C16: promotion asks exactly when a non-custom pattern has the signature of
\* the promoted one; a declined question leaves registry, learned list and
\* additional-base list unchanged; otherwise the registry then holds the shape
\* as exactly one non-custom pattern with the promoted name, the learned list
\* has lost that row and nothing else, and the additional-base list holds the
\* signature exactly once, with the promoted name.
C16_Promotion ==
  [][MoveStep =>
       /\ last'.asked <=> NonCustomLike(CHORD_PATTERNS, Promoted) # {}
       /\ (last'.asked /\ ~last'.answer) => UNCHANGED regVars
       /\ (~last'.asked \/ last'.answer) =>
            /\ Cardinality(NonCustomLike(CHORD_PATTERNS', Promoted)) = 1
            /\ \A k \in NonCustomLike(CHORD_PATTERNS', Promoted) :
                 CHORD_PATTERNS'[k].nombre = Promoted.nombre
            /\ \A k \in DOMAIN CHORD_PATTERNS' :
                 CHORD_PATTERNS'[k].is_custom =>
                   SortedSignature(CHORD_PATTERNS'[k]) # SortedSignature(Promoted)
            /\ custom_chords' = RemoveAt(custom_chords, last'.index + 1)
            /\ Cardinality(RecordedLike(additional_base_chords', Promoted)) = 1
            /\ \A k \in RecordedLike(additional_base_chords', Promoted) :
                 additional_base_chords'[k].nombre = Promoted.nombre
            /\ Len(CHORD_PATTERNS') =
                 IF last'.asked THEN Len(CHORD_PATTERNS) - 1 ELSE Len(CHORD_PATTERNS)]_vars

\* a learned pattern was promoted over a non-custom one of the same signature
\* while another learned pattern stayed in the list
C16_Witness ==
  /\ last.op = "move_custom_to_base"
  /\ last.asked /\ last.answer
  /\ last.confirmed # {}
  /\ additional_base_chords # <<>>

(***************************************************************************)
(* Dictionary import.                                                      *)
(***************************************************************************)
\* the step is a call of the import
ImportStep == last.op = "call" /\ last'.op = "import_dictionary_from_path"

\* a list of integers
IsIntList(j) == j.t = "list" /\ \A i \in DOMAIN j.items : j.items[i].t = "int"

\* the entry is well-formed: the three fields are there, obligatorias and
\* opcionales are lists of integers
WellFormedEntry(e) ==
  /\ e.t = "dict"
  /\ e.nombre.t # "null"
  /\ IsIntList(e.obligatorias)
  /\ IsIntList(e.opcionales)

\* what the import of the entries es does to the registry of this state
ImportOf(es) ==
  import_dictionary_from_path(Reg, FileJson(JDictionary(JList(es))),
                              last.record_extra, last.allow_overwrite)

\* C17: the import skips each malformed entry without changing the registry
\* and processes every well-formed entry before or after it: the registry
\* after the import is the one the well-formed entries alone give.
C17_SkipsMalformed ==
  [][ImportStep =>
       LET r == ImportOf(SelectSeq(last.entries, WellFormedEntry)).reg
       IN /\ CHORD_PATTERNS' = r.CHORD_PATTERNS
          /\ custom_chords' = r.custom_chords
          /\ additional_base_chords' = r.additional_base_chords
          /\ additional_base_signatures' = r.additional_base_signatures]_vars

\* the entries of es that change the registry when es is imported in order:
\* those that add a pattern or update an existing one
RECURSIVE Effective(_, _)
Effective(acc, es) ==
  IF es = <<>> THEN 0
  ELSE LET after == ImportEntry(acc, Head(es), last.record_extra, last.allow_overwrite)
           counts == \/ Len(after.reg.CHORD_PATTERNS) > Len(acc.reg.CHORD_PATTERNS)
                     \/ after.overwritten # acc.overwritten
       IN (IF counts THEN 1 ELSE 0)
          + Effective([after EXCEPT !.overwritten = {}], Tail(es))

\* C18: the number returned by an import is the number of entries that were
\* added as new patterns or that updated an existing pattern.
C18_Count ==
  [][ImportStep =>
       last'.added = Effective([reg |-> Reg, added |-> 0, overwritten |-> {}],
                               last.entries)]_vars

(***************************************************************************)
(* Export and import.                                                      *)
(***************************************************************************)
\* the set of (obligatory, optional) signatures of a list of patterns
Signatures(patterns) == {SortedSignature(patterns[i]) : i \in DOMAIN patterns}

\* C19: the registry got by importing an exported file into an empty registry
\* has the same set of (obligatory, optional) signatures as the registry that
\* was exported, whatever the names.
C19_RoundTrip ==
  last.op = "import_dictionary_from_path" =>
    Signatures(CHORD_PATTERNS) = Signatures(last.exported)

\* a registry holding a learned pattern, a pattern with a name that is not a
\* str and an added pattern with an optional interval went through the round
\* trip
C19_Witness ==
  /\ last.op = "import_dictionary_from_path"
  /\ Len(last.exported) > NumBase
  /\ \E i \in DOMAIN last.exported : last.exported[i].is_custom
  /\ \E i \in DOMAIN last.exported :
       i > NumBase /\ last.exported[i].opcionales # <<>>
  /\ Len(CHORD_PATTERNS) = Len(last.exported)

(***************************************************************************)
(* Spelling.                                                               *)
(***************************************************************************)
\* the letter offsets of the degrees
DegreeOffsets ==
  [d \in {1, 2, 3, 4, 5, 6, 7, 9, 11, 13} |->
     CASE d = 1 -> 0 [] d = 2 -> 1 [] d = 3 -> 2 [] d = 4 -> 3 [] d = 5 -> 4
       [] d = 6 -> 5 [] d = 7 -> 6 [] d = 9 -> 1 [] d = 11 -> 3 [] d = 13 -> 5]

\* a flats (a < 0) or a sharps (a > 0)
FlatsOrSharps(a) == IF a < 0 THEN [i \in 1..(-a) |-> 98] ELSE [i \in 1..a |-> 35]

\* the natural pitch class of each letter
NaturalPc(letter) ==
  CASE letter = <<67>> -> 0 [] letter = <<68>> -> 2 [] letter = <<69>> -> 4
    [] letter = <<70>> -> 5 [] letter = <<71>> -> 7 [] letter = <<65>> -> 9
    [] letter = <<66>> -> 11

\* the letter n letters above letter, in the order C D E F G A B
LetterAbove(letter, n) ==
  LET order == <<<<67>>, <<68>>, <<69>>, <<70>>, <<71>>, <<65>>, <<66>>>>
      at == CHOOSE i \in 1..7 : order[i] = letter
  IN order[((at - 1 + n) % 7) + 1]

\* C20: spell returns the letter lying degree-offset letters above the root
\* letter followed by at most two flats or two sharps that bring the letter's
\* natural pitch class to (root_pc + interval) mod 12, or, only when no such
\* accidental exists, the fixed-table name of that pitch class; no result has
\* a triple accidental; spell("C", 0, "9", 2) is D-lettered.
C20_Spelling ==
  last.op = "spell_note_for_interval" =>
    LET note_pc == (last.root_pc + last.interval) % 12
        degree == degree_for_interval(last.interval, last.chord_name)
        letter == LetterAbove(last.root_letter, DegreeOffsets[degree])
        fits == {a \in -2..2 : (NaturalPc(letter) + a) % 12 = note_pc}
    IN /\ \/ \E a \in fits : last.ret = letter \o FlatsOrSharps(a)
          \/ fits = {} /\ last.ret = NOTE_NAMES[note_pc + 1]
       /\ Len(last.ret) <= 3
       /\ (last.root_letter = <<67>> /\ last.root_pc = 0 /\ last.chord_name = <<57>>
           /\ last.interval = 2) => last.ret = <<68>>

\* spell("C", 0, "9", 2) has returned "D"
C20_Witness ==
  /\ last.op = "spell_note_for_interval"
  /\ last.root_letter = <<67>> /\ last.root_pc = 0 /\ last.chord_name = <<57>>
  /\ last.interval = 2
  /\ last.ret = <<68>>


(***************************************************************************)
(* Claims about the spelling of the flattened fifth.                       *)
(***************************************************************************)
\* the name marks a flattened fifth: "b5", the diminished or the
\* half-diminished sign
MarksFlatFifth(name) ==
  Contains(name, <<98, 53>>) \/ Contains(name, <<186>>) \/ Contains(name, <<248>>)

\* root_pc is the root letter's natural pitch class, flattened or sharpened once
RootWithinOneAccidental ==
  \E a \in {-1, 0, 1} : last.root_pc = (NaturalPc(last.root_letter) + a + 12) % 12

\* C21: for a chord name that marks a flattened fifth, interval 6 is spelled
\* on the letter four letters above the root letter, also when the name
\* contains "11": B "11(b5)no3" gives F, root letter C with pitch class 1
\* "13(b5)" gives G, E "º7(11)" gives Bb, A "ø11" gives Eb.
C21_FlatFifthLetter ==
  (/\ last.op = "spell_note_for_interval"
   /\ last.interval = 6
   /\ MarksFlatFifth(last.chord_name)
   /\ RootWithinOneAccidental) =>
    SubSeq(last.ret, 1, 1) = LetterAbove(last.root_letter, 4)

(***************************************************************************)
(* Claims about the spelling of the built-in dictionary.                   *)
(***************************************************************************)
\* expected_degree of the spelling tests: the degree of an interval up to 3
expected_degree(interval, chord_name) ==
  LET has(token) == Contains(chord_name, token)
  IN IF interval = 0 THEN 1
     ELSE IF has(<<97, 100, 100, 98, 50>>) /\ interval = 1 THEN 2
     ELSE IF has(<<35, 57>>) /\ interval = 3 THEN 9
     ELSE IF has(<<98, 57>>) /\ interval = 1 THEN 9
     ELSE IF interval = 2 /\ (has(<<97, 100, 100, 50>>) \/ has(<<115, 117, 115, 50>>)) THEN 2
     ELSE IF interval \in {1, 2} /\ (has(<<57>>) \/ has(<<49, 49>>) \/ has(<<49, 51>>)) THEN 9
     ELSE 3

\* the call spells an interval of a built-in pattern on a root of
\* DETECT_NOTE_NAMES
DictionaryCase ==
  /\ \E i \in DOMAIN BASE_CHORD_PATTERNS :
       /\ BASE_CHORD_PATTERNS[i].nombre = last.chord_name
       /\ last.interval \in SeqToSet(normalize_intervals(BASE_CHORD_PATTERNS[i].obligatorias
                                                          \o BASE_CHORD_PATTERNS[i].opcionales))
  /\ last.root_letter = SubSeq(DETECT_NOTE_NAMES[last.root_pc + 1], 1, 1)

\* C22: for every pattern of the dictionary, every root as spelled by
\* DETECT_NOTE_NAMES and every interval in {0,1,2,3} of the pattern, the first
\* letter of the spelled note is the root letter advanced by the degree offset
\* of the expected degree (addb2 2, #9 9, b9 9, add2/sus2 2, 9/11/13 in the
\* name 9 for intervals 1-2, else 3).
C22_DictionaryLetters ==
  (/\ last.op = "spell_note_for_interval"
   /\ DictionaryCase
   /\ last.interval \in {0, 1, 2, 3}) =>
    SubSeq(last.ret, 1, 1)
      = LetterAbove(last.root_letter,
                    DegreeOffsets[expected_degree(last.interval, last.chord_name)])

\* the flattened ninth of Eb "7(b9)" has been spelled on F, as "Fb"
C22_Witness ==
  /\ last.op = "spell_note_for_interval"
  /\ DictionaryCase
  /\ last.root_letter = <<69>> /\ last.root_pc = 3
  /\ last.chord_name = <<55, 40, 98, 57, 41>> /\ last.interval = 1
  /\ last.ret = <<70, 98>>

(***************************************************************************)
(* Claims about the octave of a spelled note.                              *)
(***************************************************************************)
\* the offset an accidental text stands for
AccidentalValue(accidental) ==
  CHOOSE a \in -2..2 : FlatsOrSharps(a) = accidental

\* the letter and accidental name the pitch class of the note
ValidSpelling ==
  (NaturalPc(last.letter) + AccidentalValue(last.accidental) + 12) % 12 = last.note % 12

\* C23: for every MIDI note, letter and accidental (double flat to double
\* sharp) whose pitch class is the note's, the octave o returned by
\* spelled_octave satisfies 12 * (o + 1) + natural pc + accidental offset = note
\* (note 59 spelled C-flat is octave 4): the fall-back to the note's own octave
\* is never needed for a valid spelling.
C23_SpelledOctave ==
  (last.op = "spelled_octave" /\ ValidSpelling) =>
    /\ 12 * (last.ret + 1) + NaturalPc(last.letter) + AccidentalValue(last.accidental)
         = last.note
    /\ (last.note = 59 /\ last.letter = <<67>> /\ last.accidental = <<98>>) => last.ret = 4

\* note 59 spelled C-flat has been given octave 4, not the note's own octave 3
C23_Witness ==
  /\ last.op = "spelled_octave" /\ ValidSpelling
  /\ last.note = 59 /\ last.letter = <<67>> /\ last.accidental = <<98>>
  /\ last.ret = 4

(***************************************************************************)
(* Claims about _normalize_intervals.                                      *)
(***************************************************************************)
\* C24: for every list of integers (negatives, values of 12 and more and
\* repeats included) the normalized list holds only values in 0..11, holds no
\* value twice, holds 0, and normalizing it again changes nothing.
C24_Normalize ==
  last.op = "normalize_intervals" =>
    /\ \A i \in DOMAIN last.ret : last.ret[i] \in 0..11
    /\ \A i, j \in DOMAIN last.ret : i # j => last.ret[i] # last.ret[j]
    /\ \E i \in DOMAIN last.ret : last.ret[i] = 0
    /\ last.again = last.ret

\* [-13, 23, 23] has been normalized to [0, 11]
C24_Witness ==
  /\ last.op = "normalize_intervals"
  /\ last.intervals = <<-13, 23, 23>>
  /\ last.ret = <<0, 11>>

(***************************************************************************)
(* Claims about the built-in dictionary in the matcher.                    *)
(***************************************************************************)
\* only the built-in patterns are registered
OnlyBuiltIns == CHORD_PATTERNS = InitialReg.CHORD_PATTERNS

\* C25: with only the built-in patterns registered, a note set of pitch
\* classes {0,4,7} whose lowest note has pitch class 0 has the plain major
\* triad on 0 as principal ("C", bass-rooted), and one of pitch classes
\* {0,4,7,10} whose lowest note has pitch class 0 has the dominant seventh on
\* 0 ("C7").
C25_TriadAndSeventh ==
  (Returned /\ OnlyBuiltIns /\ notas # <<>> /\ BassPc = 0) =>
    /\ SoundingPcs = {0, 4, 7} =>
         /\ Identified
         /\ info.principal = <<67>>
         /\ info.principal_match.nombre = <<>>
         /\ info.principal_match.root = 0
         /\ info.principal_match.obligatorias = <<0, 4, 7>>
         /\ info.principal_match.esGraveFundamental
    /\ SoundingPcs = {0, 4, 7, 10} =>
         /\ Identified
         /\ info.principal = <<67, 55>>
         /\ info.principal_match.nombre = <<55>>
         /\ info.principal_match.root = 0
         /\ info.principal_match.esGraveFundamental

\* C E G Bb has been analysed with the built-in patterns and named "C7"
C25_Witness ==
  /\ Returned /\ OnlyBuiltIns
  /\ notas = <<NoteLo, NoteLo + 4, NoteLo + 7, NoteLo + 10>>
  /\ NoteLo % 12 = 0
  /\ info.principal = <<67, 55>>


\* the sounding pitch classes are the bass and the obligatory intervals of the
\* pattern above it
InRootPosition(ptn) ==
  SoundingPcs = {BassPc} \cup {(BassPc + ptn.obligatorias[i]) % 12 : i \in DOMAIN ptn.obligatorias}

\* C29: with only the built-in patterns registered, for every built-in
\* pattern P and every root r, the note set of pitch classes r plus P's
\* obligatory intervals with its lowest note on r has as principal the
\* fixed-table name of r followed by P's name.
C29_NotShadowed ==
  (Returned /\ OnlyBuiltIns /\ notas # <<>>) =>
    \A k \in DOMAIN BASE_CHORD_PATTERNS :
      InRootPosition(BASE_CHORD_PATTERNS[k]) =>
        /\ Identified
        /\ info.principal = DETECT_NOTE_NAMES[BassPc + 1] \o BASE_CHORD_PATTERNS[k].nombre

(***************************************************************************)
(* Claims about the MIDI poll, checked under SpecKeyboard.                 *)
(***************************************************************************)
\* the tick drained msgs: the step is PollMidi(msgs)
Drained(msgs) ==
  /\ last'.op = "poll_midi"
  /\ last'.note_ons = NoteOns(msgs)
  /\ active_notes' = handle_messages(Keyboard, msgs).active_notes
  /\ sustained_notes' = handle_messages(Keyboard, msgs).sustained_notes
  /\ sustain_on' = handle_messages(Keyboard, msgs).sustain_on
  /\ PollMidi(msgs)

\* C30: under any sequence of note-on, note-off (a note-on with velocity 0
\* included) and sustain-pedal events, the held set and the sustained set are
\* disjoint and the sustained set is empty whenever the pedal is off; a pedal
\* value below 64 clears the sustained set, and with a value of 64 or more a
\* released note stays as sustained.
C30_NoteSets ==
  /\ [](/\ active_notes \cap sustained_notes = {}
        /\ ~sustain_on => sustained_notes = {})
  /\ [][\A v \in {0, 63, 64, 127} :
          Drained(<<Sustain(v)>>) =>
            /\ sustain_on' = (v >= 64)
            /\ v < 64 => sustained_notes' = {}
            /\ v >= 64 => sustained_notes' = sustained_notes]_vars
  /\ [][\A n \in LearnNotes : \A msg \in {NoteOff(n), NoteOnSilent(n)} :
          (Drained(<<msg>>) /\ sustain_on) =>
            /\ n \in sustained_notes'
            /\ n \notin active_notes']_vars

\* the pedal is down, one key is held and the other, released, is sustained
C30_Witness ==
  /\ sustain_on
  /\ active_notes = {NoteLo}
  /\ sustained_notes = {NoteLo + 1}

\* the notes that sound after the step, as update_chord receives them
SoundingAfter == Sorted(active_notes' \cup sustained_notes')

\* C26: in one tick every pending event (note-on, note-off, sustain pedal) is
\* applied to the note sets before the matcher is invoked, the matcher is
\* invoked at most once whatever the number of events drained, and after
\* every tick that processed a note change the principal and the alternatives
\* displayed are the matcher's result on held + sustained as they stand at the
\* end of the tick.
C26_OncePerTick ==
  [][\A msgs \in KeyboardPending :
       (Drained(msgs) /\ handle_messages(Keyboard, msgs).changed) =>
         /\ notas' = SoundingAfter
         /\ analizar_cifrado_alternativos(SoundingAfter, CHORD_PATTERNS).info # Raised
         /\ info' = analizar_cifrado_alternativos(SoundingAfter, CHORD_PATTERNS).info]_vars

(***************************************************************************)
(* Claims about the capture countdown, checked under SpecLearner.          *)
(***************************************************************************)
\* C27: the countdown runs only while the learner is in CapturingWindow; it is
\* started only by the step from WaitingFirstNote to CapturingWindow, when no
\* countdown runs; a poll during the window leaves it running on the same
\* capture, whose notes are all kept; and when it fires it is over, the
\* learner being idle: there is never more than one countdown and each fires
\* at most once.
C27_SingleCountdown ==
  /\ [](capture_timer => CapturingWindow)
  /\ [][(capture_timer' /\ ~capture_timer) =>
          /\ WaitingFirstNote
          /\ CapturingWindow'
          /\ NoteOnStep]_vars
  /\ [][(capture_timer /\ last'.op = "poll_midi") =>
          /\ CapturingWindow'
          /\ learning_capture_notes \subseteq learning_capture_notes']_vars
  /\ [][last'.op = "finish_capture_window" =>
          /\ capture_timer
          /\ ~capture_timer'
          /\ Idle']_vars

\* the window is open and a poll in it has read a note-on: the key captured
\* first is released, the one pressed since is held, both are in the capture
C27_Witness ==
  /\ CapturingWindow
  /\ last.op = "poll_midi" /\ last.note_ons = {NoteLo + 1}
  /\ Held = {NoteLo + 1}
  /\ learning_capture_notes = {NoteLo, NoteLo + 1}

(***************************************************************************)
(* Claims about a chord just learned, checked under Spec.                  *)
(***************************************************************************)
\* the step learns a chord from the notes captured, under the name typed
LearnedStep(captured, reply, answer) ==
  /\ last'.op = "complete_learning_with_notes"
  /\ complete_learning_with_notes(Reg, captured, reply[1], reply[2], answer).outcome
       = "registered"
  /\ CompleteLearningWithNotes(captured, reply[1], reply[2], answer)

\* C28: right after a chord has been learned from a set N of at least two
\* notes under name X, the matcher run on N gives as principal the fixed-table
\* name of the pitch class of N's lowest note followed by X, whatever other
\* built-in, imported or learned patterns are registered.
C28_TaughtChordNamed ==
  [][\A captured \in SUBSET LearnNotes, reply \in DialogReplies, answer \in BOOLEAN :
       LearnedStep(captured, reply, answer) =>
         /\ analizar_cifrado_alternativos(Sorted(captured), CHORD_PATTERNS').info
              \notin {Raised, EmptyResult}
         /\ analizar_cifrado_alternativos(Sorted(captured), CHORD_PATTERNS').info.principal
              = DETECT_NOTE_NAMES[(SetMin(captured) % 12) + 1] \o Strip(reply[2])]_vars
====
